---- MODULE Spec2Model ----
(***************************************************************************)
(* Job-claim protocol and worker batch loop of the render worker.          *)
(*                                                                         *)
(* Several worker processes (VideoRenderWorker.processAllJobs) share one   *)
(* job table (dark_channel_soundtrack_videos) through SupabaseJobManager.   *)
(* Every `await` on the store, the network or the media pipeline is a      *)
(* separate step, so the steps of different workers interleave.            *)
(***************************************************************************)
EXTENDS Integers, Sequences, FiniteSets, TLC

\* ---- bounds ----
NumWorkers == 2
NumJobs == 2

Workers == 1..NumWorkers
Jobs == 1..NumJobs
NoJob == 0

\* outcome of one request to the job store: a result, an {error} object, or
\* an exception thrown by the client
StoreOutcomes == {"ok", "error", "throw"}
\* outcome of the webhook POST inside axios
HttpOutcomes == {"2xx", "non2xx", "transport"}
\* outcome of removing a file from scratch storage
FsOutcomes == {"ok", "error"}

VARIABLES
  status,            \* job row: status column
  final_video_url,   \* job row: "null", "old" (set before this run) or "new" (uploaded by a worker)
  workflowNotifier,  \* SupabaseJobManager.workflowNotifier is injected
  pc,                \* per worker: the await it is suspended at
  job,               \* per worker: local `job` of getAndClaimJob, then of processAllJobs
  claimResult,       \* per worker: what the last getAndClaimJob call produced
  lostRace,          \* per worker: the job on which its conditional update matched zero rows
  found,             \* per worker: result of getJobById inside completeJob / failJob:
                     \* "null", or the row with its waiting_node_url ("row_url") or without ("row")
  updateSuccess,     \* per worker: result of updateJobStatus inside completeJob / failJob
  notifyResult,      \* per worker: what the notifier returned inside completeJob / failJob
  ret,               \* per worker: return value of the last completeJob / failJob call
  statusWrites,      \* per worker: updateJobStatus calls issued by the current completeJob / failJob
  failCalled,        \* per worker: failJob calls made by the current renderVideo
  maxClaimed,        \* highest id getAndClaimJob has returned so far
  claimCount,        \* per job: getAndClaimJob calls that returned it
  renderCount        \* per job: renderVideo calls made with it

tableVars == <<status, final_video_url>>
jobHist == <<claimCount, renderCount, maxClaimed>>
callVars == <<found, updateSuccess, notifyResult, ret, statusWrites>>
workerVars == <<pc, job, claimResult, lostRace, failCalled, callVars>>

\* ---- one renderVideo run seen statement by statement ----
VARIABLES
  rvStep,            \* renderVideo: index of the statement of the try block that is next
  rvError,           \* renderVideo: the statement whose error reached the catch block
  currentJob,        \* ProgressTracker.currentJob
  reported,          \* percentages handed to jobManager.updateProgress, in order
  progressErrors,    \* updateProgress calls that threw
  customCalls        \* ProgressTracker.updateCustom calls made

renderVars == <<rvStep, rvError, currentJob, reported, progressErrors, customCalls>>

\* no renderVideo run is being followed
RenderIdle ==
  /\ rvStep = 0
  /\ rvError = "none"
  /\ currentJob = NoJob
  /\ reported = <<>>
  /\ progressErrors = 0
  /\ customCalls = 0

\* ---- one MediaOrchestrator.processMedia call and its scratch files ----
VARIABLES
  loopPc,            \* per branch: where loopVideo / loopAudio is
  pmPc,              \* where processMedia is
  loopedPath,        \* per branch: the local loopedVideoPath / loopedAudioPath is set
  files,             \* per path: "absent", "present" or "locked" (present, removal fails)
  mergeCalls,        \* mediaMerger.mergeVideoAudio invocations
  pmRejectedBy       \* what made processMedia reject: a branch or the merge

mediaVars == <<loopPc, pmPc, loopedPath, files, mergeCalls, pmRejectedBy>>

\* the two operations handed to Promise.all
Branches == {"video", "audio"}

\* the paths a render attempt writes
Paths == {"looped_video", "looped_audio", "merged"}

\* no processMedia call is being followed
MediaIdle ==
  /\ loopPc = [b \in Branches |-> "idle"]
  /\ pmPc = "idle"
  /\ loopedPath = [b \in Branches |-> FALSE]
  /\ files = [p \in Paths |-> "absent"]
  /\ mergeCalls = 0
  /\ pmRejectedBy = "none"

\* ---- FileManager.cleanup called on a list of paths ----
VARIABLES
  cleanupImpl,       \* which cleanup: of the media FileManager or of the base FileManager
  filePaths,         \* the argument: a list of paths and null entries
  cleanupCalls,      \* calls made with that argument
  cleanupRaised,     \* a call raised instead of returning
  afterFirst         \* the file states when the first call returned

cleanupVars == <<cleanupImpl, filePaths, cleanupCalls, cleanupRaised, afterFirst>>

\* no cleanup call is being followed
CleanupIdle ==
  /\ cleanupImpl = "none"
  /\ filePaths = <<>>
  /\ cleanupCalls = 0
  /\ cleanupRaised = FALSE
  /\ afterFirst = [p \in Paths |-> "absent"]

\* ---- the loop commands and the scale filter of one render ----
VARIABLES
  inputDuration,     \* per branch: what getMediaDuration resolved to
  durationMinutes,   \* the durationMinutes argument
  command,           \* per branch: the ffmpeg command loopVideo / loopAudio came to
  videoInfo,         \* width and height from getVideoInfo
  maxHeight,         \* compressionSettings.maxHeight, 0 for null
  scaleFilter        \* what getVideoScaleFilter returned

planVars == <<inputDuration, durationMinutes, command, videoInfo, maxHeight, scaleFilter>>

\* a value of `loops`: a number, Infinity or NaN
Num(n) == [kind |-> "num", n |-> n]

\* no command has been worked out
NoCommand == [planned |-> FALSE, issued |-> FALSE, strategy |-> "none",
              loops |-> Num(0), t |-> 0]

\* getVideoScaleFilter has not been called
NoFilter == [called |-> FALSE, filter |-> FALSE, width |-> 0, height |-> 0]

\* no planning is being followed
PlanIdle ==
  /\ inputDuration = [b \in Branches |-> [nan |-> FALSE, v |-> 1]]
  /\ durationMinutes = 1
  /\ command = [b \in Branches |-> NoCommand]
  /\ videoInfo = [width |-> 1, height |-> 1]
  /\ maxHeight = 0
  /\ scaleFilter = NoFilter

\* ---- the job handed to renderVideo and the files it downloads ----
VARIABLES
  jobData,           \* the columns of the claimed row that validateJobData reads
  downloads          \* per branch: what downloadFile left: "none" (not called),
                     \* "failed" (request refused, no file), "partial" (stream
                     \* broke, file on disk), "small" (file below the minimum
                     \* size), "present", or "removed" by cleanup

runVars == <<jobData, downloads>>

\* a nullable numeric column: null, or the number v
Null == [null |-> TRUE, v |-> 0]

\* a row that passes validation; nothing downloaded
RunIdle ==
  /\ jobData = [input_video_url |-> "valid", soundtrack_url |-> "valid",
                length_minutes |-> [null |-> FALSE, v |-> 1],
                channel_id |-> [null |-> FALSE, v |-> 1]]
  /\ downloads = [b \in Branches |-> "none"]

\* ---- worker startup, the merge command and the uploader ----
VARIABLES
  di,                \* main(): the DI container and the worker built from it
  merge,             \* one mergeVideoAudio call: inputs, command, output
  publish            \* the uploader: its bucket and its calls

serviceVars == <<di, merge, publish>>

\* main() has not begun
NoContainer == [phase |-> "main", env |-> "unset", compressionPreset |-> "none",
                singleton |-> "none", factoryCalls |-> 0, resolves |-> 0,
                processor |-> "none", jobs |-> <<>>]

\* mergeVideoAudio has not been called
NoMerge == [video |-> 1, audio |-> 1, settings |-> "youtube-1080p",
            issued |-> FALSE, options |-> {}, bitrate |-> "", duration |-> 0]

\* config.backblaze.keyPattern, cut at its two placeholders
KeyPattern == <<"dark_channel_sounds/channel_", "{channelId}",
                "/finals/rendered_version_", "{videoId}", ".mp4">>

\* nothing was uploaded: the bucket is empty, no call was made
NoPublish == [keyPattern |-> KeyPattern, bucket |-> {}, calls |-> 0,
              keys |-> <<>>, result |-> "none", keepLocal |-> FALSE]

\* startup, merge and upload are not being followed
ServiceIdle ==
  /\ di = NoContainer
  /\ merge = NoMerge
  /\ publish = NoPublish

\* ---- one downloadWithRetry call and one processAllJobs batch ----
VARIABLES
  retry,             \* downloadWithRetry: its arguments, `attempt`, the waits, the outcome
  batch              \* processAllJobs of one worker: its locals and what it returned

loopVars == <<retry, batch>>

\* neither downloadWithRetry nor a batch is being followed
LoopIdle ==
  /\ retry = <<>>
  /\ batch = <<>>

\* the media side of the model
mediaSide == <<mediaVars, cleanupVars, planVars>>

\* renderVideo is a single awaited call to the workers of the claim protocol:
\* nothing inside it is followed, the per-branch and per-path maps and the
\* records of the pipeline have no entry, its counters and flags are at rest
Unfollowed ==
  /\ jobData = <<>>
  /\ downloads = <<>>
  /\ loopPc = <<>>
  /\ pmPc = "idle"
  /\ loopedPath = <<>>
  /\ files = <<>>
  /\ mergeCalls = 0
  /\ pmRejectedBy = "none"
  /\ cleanupImpl = "none"
  /\ filePaths = <<>>
  /\ cleanupCalls = 0
  /\ cleanupRaised = FALSE
  /\ afterFirst = <<>>
  /\ inputDuration = <<>>
  /\ durationMinutes = 1
  /\ command = <<>>
  /\ videoInfo = <<>>
  /\ maxHeight = 0
  /\ scaleFilter = <<>>
  /\ di = <<>>
  /\ merge = <<>>
  /\ publish = <<>>

\* what the claim protocol leaves alone
pipelineVars == <<renderVars, runVars, mediaSide, serviceVars, loopVars>>

vars == <<status, final_video_url, workflowNotifier, pc, job,
          claimResult, lostRace, found, updateSuccess, notifyResult, ret,
          statusWrites, failCalled, maxClaimed, claimCount, renderCount,
          pipelineVars>>

\* ---- the job table at start ----
\* rows are created outside the worker: waiting rows, waiting rows that
\* already carry a final output, and rows rendered by an earlier run
InitialRows == { <<"waiting_render", "null">>,
                 <<"waiting_render", "old">>,
                 <<"rendered", "old">> }

Init ==
  /\ \E rows \in [Jobs -> InitialRows] :
       /\ status = [j \in Jobs |-> rows[j][1]]
       /\ final_video_url = [j \in Jobs |-> rows[j][2]]
  /\ workflowNotifier \in BOOLEAN
  /\ pc = [w \in Workers |-> "poll"]
  /\ job = [w \in Workers |-> NoJob]
  /\ claimResult = [w \in Workers |-> "none"]
  /\ lostRace = [w \in Workers |-> NoJob]
  /\ found = [w \in Workers |-> "none"]
  /\ updateSuccess = [w \in Workers |-> "none"]
  /\ notifyResult = [w \in Workers |-> "none"]
  /\ ret = [w \in Workers |-> "none"]
  /\ statusWrites = [w \in Workers |-> 0]
  /\ failCalled = [w \in Workers |-> 0]
  /\ maxClaimed = NoJob
  /\ claimCount = [j \in Jobs |-> 0]
  /\ renderCount = [j \in Jobs |-> 0]
  /\ RenderIdle
  /\ Unfollowed
  /\ LoopIdle

\* ---- SupabaseJobManager.getAndClaimJob ----

\* the rows the select of getAndClaimJob matches
Eligible == { j \in Jobs : status[j] = "waiting_render" /\ final_video_url[j] = "null" }

FirstById_Descending(S) == CHOOSE j \in S : \A k \in S : j >= k

\* .order('id', { ascending: true }).limit(1), then jobs[0]
FirstById(S) == CHOOSE j \in S : \A k \in S : j <= k

StillWaiting_Unconditional(j) == TRUE

\* .eq('status', 'waiting_render') of the claiming update
StillWaiting(j) == status[j] = "waiting_render"

UpdatedJobResult_ReturnsSelected(matched) == "job"

\* what getAndClaimJob returns once the update was evaluated: the updated
\* row, or null when no row matched
UpdatedJobResult(matched) == IF matched THEN "job" ELSE "null"

StoreFailureResult_NoCatch(o) == IF o = "throw" THEN "raise" ELSE "null"

\* what getAndClaimJob returns when a store request fails: an {error}
\* result and a thrown exception both end in `return null`
StoreFailureResult(o) == "null"

\* ---- VideoRenderWorker.processAllJobs ----

ProcessAllJobs_Branch_NoAwait(w, res) ==
  /\ pc' = [pc EXCEPT ![w] = CASE res = "job" -> "poll"
                               [] res = "raise" -> "poll"
                               [] OTHER -> "done"]
  /\ renderCount' = IF res = "job"
                      THEN [renderCount EXCEPT ![job[w]] = @ + 1] ELSE renderCount
  /\ job' = IF res = "job" THEN job ELSE [job EXCEPT ![w] = NoJob]

\* the loop body once `await this.jobManager.getAndClaimJob()` has produced
\* res: a job goes to renderVideo, `!job` breaks out of the loop, an exception
\* is caught by the outer catch and the loop goes round
ProcessAllJobs_Branch(w, res) ==
  /\ pc' = [pc EXCEPT ![w] = CASE res = "job" -> "validate"
                               [] res = "raise" -> "poll"
                               [] OTHER -> "done"]
  /\ renderCount' = IF res = "job"
                      THEN [renderCount EXCEPT ![job[w]] = @ + 1] ELSE renderCount
  /\ job' = IF res = "job" THEN job ELSE [job EXCEPT ![w] = NoJob]

\* the select is answered; without a row getAndClaimJob returns
GetAndClaimJob_Select(w) ==
  /\ pc[w] = "poll"
  /\ \E o \in StoreOutcomes :
       IF o = "ok" /\ Eligible # {}
         THEN /\ job' = [job EXCEPT ![w] = FirstById(Eligible)]
              /\ pc' = [pc EXCEPT ![w] = "claim"]
              /\ UNCHANGED <<claimResult, renderCount>>
         ELSE LET res == IF o = "ok" THEN "null" ELSE StoreFailureResult(o)
              IN /\ claimResult' = [claimResult EXCEPT ![w] = res]
                 /\ ProcessAllJobs_Branch(w, res)
  /\ UNCHANGED pipelineVars
  /\ UNCHANGED <<tableVars, workflowNotifier, claimCount, maxClaimed, callVars,
                 lostRace, failCalled>>

\* the conditional update is answered and getAndClaimJob returns
GetAndClaimJob_Update(w) ==
  /\ pc[w] = "claim"
  /\ \E o \in StoreOutcomes :
       LET j == job[w]
           matched == StillWaiting(j)
           res == IF o = "ok" THEN UpdatedJobResult(matched) ELSE StoreFailureResult(o)
       IN /\ status' = IF o = "ok" /\ matched
                         THEN [status EXCEPT ![j] = "rendering"] ELSE status
          /\ lostRace' = IF o = "ok" /\ ~matched
                           THEN [lostRace EXCEPT ![w] = j] ELSE lostRace
          /\ claimResult' = [claimResult EXCEPT ![w] = res]
          /\ claimCount' = IF res = "job"
                             THEN [claimCount EXCEPT ![j] = @ + 1] ELSE claimCount
          /\ maxClaimed' = IF res = "job" /\ j > maxClaimed THEN j ELSE maxClaimed
          /\ ProcessAllJobs_Branch(w, res)
  /\ UNCHANGED pipelineVars
  /\ UNCHANGED <<final_video_url, workflowNotifier, callVars, failCalled>>

\* ---- SupabaseJobManager helpers ----

\* whether the row a select returns carries a waiting_node_url; a select
\* that fails returns no row to read it from
RowUrl(o) == IF o = "ok" THEN BOOLEAN ELSE {FALSE}

\* getJobById: the row, or null on an {error} result or an exception;
\* url tells whether the row read carries a waiting_node_url
GetJobById(o, url) ==
  IF o = "ok" THEN (IF url THEN "row_url" ELSE "row") ELSE "null"

UpdateJobStatusResult_NoCatch(o) ==
  IF o = "ok" THEN "true" ELSE IF o = "throw" THEN "raise" ELSE "false"

\* updateJobStatus: true when the update went through, false on an {error}
\* result or an exception
UpdateJobStatusResult(o) == IF o = "ok" THEN "true" ELSE "false"

CompleteJobData_NoUrl(cur, outputUrl) ==
  [status |-> "rendered", final_video_url |-> cur]

\* the columns completeJob writes in its single update
CompleteJobData(cur, outputUrl) ==
  [status |-> "rendered", final_video_url |-> outputUrl]

\* the columns failJob writes: final_video_url is not part of the update
FailJobData(cur) == [status |-> "failed", final_video_url |-> cur]

\* updateJobStatus has no predicate but the id: the row is overwritten
WriteRow(j, data) ==
  /\ status' = [status EXCEPT ![j] = data.status]
  /\ final_video_url' = [final_video_url EXCEPT ![j] = data.final_video_url]

\* ---- HttpClient / WorkflowNotifier ----

\* HttpClient.post: response.success; a non-2xx answer and a transport
\* error are both caught and give success = false
HttpPost(h) == h = "2xx"

\* WorkflowNotifier.notifyJobCompletion: true / false, never an exception
NotifyJobCompletion(h) == IF HttpPost(h) THEN "true" ELSE "false"

\* WorkflowNotifier.notifyJobFailure: true / false, never an exception
NotifyJobFailure(h) == IF HttpPost(h) THEN "true" ELSE "false"

CompleteJobReturn_Propagate(n) == n

\* completeJob ignores what the notifier returned and returns true
CompleteJobReturn(n) == "true"

CleanupRaises_OnError(fs) == fs = "error"

\* FileManager.cleanup catches the error of every single removal
CleanupRaises(fs) == FALSE

\* `job.waiting_node_url && this.workflowNotifier` on the row read
ShouldNotify(f) == f = "row_url" /\ workflowNotifier

\* ---- VideoRenderWorker.renderVideo ----

Stage_NoFailJob(w, from, to) ==
  /\ pc[w] = from
  /\ \E ok \in BOOLEAN :
       pc' = [pc EXCEPT ![w] = IF ok THEN to ELSE "thrown"]
  /\ UNCHANGED pipelineVars
  /\ UNCHANGED <<tableVars, workflowNotifier, jobHist, callVars, job,
                 claimResult, lostRace, failCalled>>

\* one stage of the try block: it either completes or throws into the catch,
\* which calls failJob
Stage(w, from, to) ==
  /\ pc[w] = from
  /\ \E ok \in BOOLEAN :
       pc' = [pc EXCEPT ![w] = IF ok THEN to ELSE "fail_get"]
  /\ UNCHANGED pipelineVars
  /\ UNCHANGED <<tableVars, workflowNotifier, jobHist, callVars, job,
                 claimResult, lostRace, failCalled>>

\* validateJobData
RenderVideo_Validate(w) == Stage(w, "validate", "download")

\* downloadMediaFiles and the two validateFile calls
RenderVideo_Download(w) == Stage(w, "download", "process")

\* processMedia (getOutputMetadata never throws)
RenderVideo_Process(w) == Stage(w, "process", "upload")

\* uploadAndCleanup
RenderVideo_Upload(w) == Stage(w, "upload", "complete_get")

\* ---- SupabaseJobManager.completeJob ----

\* getJobById is answered; without the row completeJob returns false
CompleteJob_GetJobById(w) ==
  /\ pc[w] = "complete_get"
  /\ \E o \in StoreOutcomes : \E url \in RowUrl(o) :
       LET f == GetJobById(o, url)
       IN /\ found' = [found EXCEPT ![w] = f]
          /\ IF f = "null"
               THEN /\ ret' = [ret EXCEPT ![w] = "false"]
                    /\ pc' = [pc EXCEPT ![w] = "finish"]
               ELSE /\ ret' = ret
                    /\ pc' = [pc EXCEPT ![w] = "complete_update"]
  /\ UNCHANGED pipelineVars
  /\ UNCHANGED <<tableVars, workflowNotifier, jobHist, job, claimResult,
                 lostRace, updateSuccess, notifyResult, statusWrites, failCalled>>

\* updateJobStatus(jobId, 'rendered', {final_video_url}) is answered
CompleteJob_UpdateJobStatus(w) ==
  /\ pc[w] = "complete_update"
  /\ \E o \in StoreOutcomes :
       LET j == job[w]
           r == UpdateJobStatusResult(o)
       IN /\ IF o = "ok"
               THEN WriteRow(j, CompleteJobData(final_video_url[j], "new"))
               ELSE UNCHANGED tableVars
          /\ updateSuccess' = [updateSuccess EXCEPT ![w] = r]
          /\ IF r = "true" /\ ShouldNotify(found[w])
               THEN /\ pc' = [pc EXCEPT ![w] = "complete_notify"]
                    /\ ret' = ret
               ELSE /\ pc' = [pc EXCEPT ![w] = "finish"]
                    /\ ret' = [ret EXCEPT ![w] = IF r = "true" THEN "true" ELSE "false"]
  /\ statusWrites' = [statusWrites EXCEPT ![w] = @ + 1]
  /\ UNCHANGED pipelineVars
  /\ UNCHANGED <<workflowNotifier, jobHist, job, claimResult, lostRace,
                 found, notifyResult, failCalled>>

\* notifyJobCompletion is answered
CompleteJob_Notify(w) ==
  /\ pc[w] = "complete_notify"
  /\ \E h \in HttpOutcomes :
       LET n == NotifyJobCompletion(h)
       IN /\ notifyResult' = [notifyResult EXCEPT ![w] = n]
          /\ ret' = [ret EXCEPT ![w] = IF n = "raise" THEN "false" ELSE CompleteJobReturn(n)]
  /\ pc' = [pc EXCEPT ![w] = "finish"]
  /\ UNCHANGED pipelineVars
  /\ UNCHANGED <<tableVars, workflowNotifier, jobHist, job, claimResult,
                 lostRace, found, updateSuccess, statusWrites, failCalled>>

\* the locals of completeJob / failJob go out of scope
ResetCall(w) ==
  /\ found' = [found EXCEPT ![w] = "none"]
  /\ updateSuccess' = [updateSuccess EXCEPT ![w] = "none"]
  /\ notifyResult' = [notifyResult EXCEPT ![w] = "none"]
  /\ ret' = [ret EXCEPT ![w] = "none"]
  /\ statusWrites' = [statusWrites EXCEPT ![w] = 0]

\* after completeJob: downloader.cleanup, progressTracker.complete, return;
\* processAllJobs polls again
RenderVideo_Finish(w) ==
  /\ pc[w] = "finish"
  /\ \E fs \in FsOutcomes :
       IF CleanupRaises(fs)
         THEN /\ pc' = [pc EXCEPT ![w] = "fail_get"]
              /\ job' = job
              /\ claimResult' = claimResult
         ELSE /\ pc' = [pc EXCEPT ![w] = "poll"]
              /\ job' = [job EXCEPT ![w] = NoJob]
              /\ claimResult' = [claimResult EXCEPT ![w] = "none"]
  /\ ResetCall(w)
  /\ UNCHANGED pipelineVars
  /\ UNCHANGED <<tableVars, workflowNotifier, jobHist, lostRace, failCalled>>

\* ---- SupabaseJobManager.failJob ----

\* getJobById is answered; failJob goes on whatever it returned
FailJob_GetJobById(w) ==
  /\ pc[w] = "fail_get"
  /\ \E o \in StoreOutcomes : \E url \in RowUrl(o) :
       found' = [found EXCEPT ![w] = GetJobById(o, url)]
  /\ failCalled' = [failCalled EXCEPT ![w] = @ + 1]
  /\ pc' = [pc EXCEPT ![w] = "fail_update"]
  /\ UNCHANGED pipelineVars
  /\ UNCHANGED <<tableVars, workflowNotifier, jobHist, job, claimResult,
                 lostRace, updateSuccess, notifyResult, ret, statusWrites>>

\* the catch block of failJob: `return this.updateJobStatus(jobId, 'failed')`
\* with the store answering o2; gives the rows and the value failJob ends with
FailJob_Fallback(w, o2) ==
  LET j == job[w]
  IN /\ IF o2 = "ok"
          THEN WriteRow(j, FailJobData(final_video_url[j]))
          ELSE UNCHANGED tableVars
     /\ ret' = [ret EXCEPT ![w] = UpdateJobStatusResult(o2)]

\* updateJobStatus(jobId, 'failed') is answered
FailJob_UpdateJobStatus(w) ==
  /\ pc[w] = "fail_update"
  /\ \E o \in StoreOutcomes :
       LET j == job[w]
           r == UpdateJobStatusResult(o)
       IN IF r = "raise"
            THEN /\ \E o2 \in StoreOutcomes : FailJob_Fallback(w, o2)
                 /\ updateSuccess' = updateSuccess
                 /\ statusWrites' = [statusWrites EXCEPT ![w] = @ + 2]
                 /\ pc' = [pc EXCEPT ![w] = "thrown"]
            ELSE /\ IF o = "ok"
                      THEN WriteRow(j, FailJobData(final_video_url[j]))
                      ELSE UNCHANGED tableVars
                 /\ updateSuccess' = [updateSuccess EXCEPT ![w] = r]
                 /\ statusWrites' = [statusWrites EXCEPT ![w] = @ + 1]
                 /\ IF ShouldNotify(found[w])
                      THEN /\ pc' = [pc EXCEPT ![w] = "fail_notify"]
                           /\ ret' = ret
                      ELSE /\ pc' = [pc EXCEPT ![w] = "thrown"]
                           /\ ret' = [ret EXCEPT ![w] = r]
  /\ UNCHANGED pipelineVars
  /\ UNCHANGED <<workflowNotifier, jobHist, job, claimResult, lostRace,
                 found, notifyResult, failCalled>>

\* notifyJobFailure is answered; failJob returns updateSuccess
FailJob_Notify(w) ==
  /\ pc[w] = "fail_notify"
  /\ \E h \in HttpOutcomes :
       LET n == NotifyJobFailure(h)
       IN /\ notifyResult' = [notifyResult EXCEPT ![w] = n]
          /\ IF n = "raise"
               THEN /\ \E o2 \in StoreOutcomes : FailJob_Fallback(w, o2)
                    /\ statusWrites' = [statusWrites EXCEPT ![w] = @ + 1]
               ELSE /\ ret' = [ret EXCEPT ![w] = updateSuccess[w]]
                    /\ UNCHANGED <<tableVars, statusWrites>>
  /\ pc' = [pc EXCEPT ![w] = "thrown"]
  /\ UNCHANGED pipelineVars
  /\ UNCHANGED <<workflowNotifier, jobHist, job, claimResult, lostRace,
                 found, updateSuccess, failCalled>>

RenderVideo_Throw_EndsBatch(w) ==
  /\ pc[w] = "thrown"
  /\ pc' = [pc EXCEPT ![w] = "done"]
  /\ job' = [job EXCEPT ![w] = NoJob]
  /\ claimResult' = [claimResult EXCEPT ![w] = "none"]
  /\ failCalled' = [failCalled EXCEPT ![w] = 0]
  /\ ResetCall(w)
  /\ UNCHANGED pipelineVars
  /\ UNCHANGED <<tableVars, workflowNotifier, jobHist, lostRace>>

\* after failJob: progressTracker.fail, `throw error`; processAllJobs catches
\* it and polls again
RenderVideo_Throw(w) ==
  /\ pc[w] = "thrown"
  /\ pc' = [pc EXCEPT ![w] = "poll"]
  /\ job' = [job EXCEPT ![w] = NoJob]
  /\ claimResult' = [claimResult EXCEPT ![w] = "none"]
  /\ failCalled' = [failCalled EXCEPT ![w] = 0]
  /\ ResetCall(w)
  /\ UNCHANGED pipelineVars
  /\ UNCHANGED <<tableVars, workflowNotifier, jobHist, lostRace>>

\* ---- the system: every worker runs processAllJobs once ----

\* the worker is inside renderVideo
RenderPcs == {"validate", "download", "process", "upload", "complete_get",
              "complete_update", "complete_notify", "finish", "fail_get",
              "fail_update", "fail_notify", "thrown"}

Next ==
  \E w \in Workers :
    \/ GetAndClaimJob_Select(w)
    \/ GetAndClaimJob_Update(w)
    \/ RenderVideo_Validate(w)
    \/ RenderVideo_Download(w)
    \/ RenderVideo_Process(w)
    \/ RenderVideo_Upload(w)
    \/ CompleteJob_GetJobById(w)
    \/ CompleteJob_UpdateJobStatus(w)
    \/ CompleteJob_Notify(w)
    \/ RenderVideo_Finish(w)
    \/ FailJob_GetJobById(w)
    \/ FailJob_UpdateJobStatus(w)
    \/ FailJob_Notify(w)
    \/ RenderVideo_Throw(w)

Spec == Init /\ [][Next]_vars

\* the same system started on a table where no row has a final output yet
InitFresh == Init /\ \A j \in Jobs : final_video_url[j] = "null"

SpecFresh == InitFresh /\ [][Next]_vars

\* the store answered the request of this step: the select returned the rows
\* it matches, the updates were applied, getJobById returned the row
StoreAnswers ==
  \A w \in Workers :
    /\ (pc[w] = "poll" /\ pc'[w] = "done") => Eligible = {}
    /\ (pc[w] = "claim" /\ pc'[w] # "claim") =>
         IF StillWaiting(job[w]) THEN status'[job[w]] = "rendering"
                                 ELSE lostRace'[w] = job[w]
    /\ (pc[w] \in {"complete_get", "fail_get"} /\ pc'[w] # pc[w]) => found'[w] # "null"
    /\ (pc[w] \in {"complete_update", "fail_update"} /\ pc'[w] # pc[w]) =>
         updateSuccess'[w] = "true"

\* the system with a store that never fails
NextDrain ==
  \E w \in Workers :
    \/ GetAndClaimJob_Select(w) /\ StoreAnswers
    \/ GetAndClaimJob_Update(w) /\ StoreAnswers
    \/ RenderVideo_Validate(w) /\ StoreAnswers
    \/ RenderVideo_Download(w) /\ StoreAnswers
    \/ RenderVideo_Process(w) /\ StoreAnswers
    \/ RenderVideo_Upload(w) /\ StoreAnswers
    \/ CompleteJob_GetJobById(w) /\ StoreAnswers
    \/ CompleteJob_UpdateJobStatus(w) /\ StoreAnswers
    \/ CompleteJob_Notify(w) /\ StoreAnswers
    \/ RenderVideo_Finish(w) /\ StoreAnswers
    \/ FailJob_GetJobById(w) /\ StoreAnswers
    \/ FailJob_UpdateJobStatus(w) /\ StoreAnswers
    \/ FailJob_Notify(w) /\ StoreAnswers
    \/ RenderVideo_Throw(w) /\ StoreAnswers

SpecDrain == Init /\ [][NextDrain]_vars

\* SIGINT / SIGTERM: the handler awaits worker.shutdown(), which only logs
\* the current job, and calls process.exit(0); whatever the worker was
\* awaiting is abandoned
SetupGracefulShutdown_Signal(w) ==
  /\ pc[w] \notin {"done", "exited"}
  /\ pc' = [pc EXCEPT ![w] = "exited"]
  /\ UNCHANGED pipelineVars
  /\ UNCHANGED <<tableVars, workflowNotifier, jobHist, callVars, job,
                 claimResult, lostRace, failCalled>>

\* the system with worker processes that can be sent a signal
NextShutdown ==
  \/ Next
  \/ \E w \in Workers : SetupGracefulShutdown_Signal(w)

SpecShutdown == Init /\ [][NextShutdown]_vars

TypeOK ==
  /\ status \in [Jobs -> {"waiting_render", "rendering", "rendered", "failed"}]
  /\ final_video_url \in [Jobs -> {"null", "old", "new"}]
  /\ job \in [Workers -> Jobs \cup {NoJob}]
  /\ lostRace \in [Workers -> Jobs \cup {NoJob}]
  /\ claimResult \in [Workers -> {"none", "job", "null", "raise"}]
  /\ pc \in [Workers -> RenderPcs \cup {"poll", "claim", "done"}]

\* ---- VideoRenderWorker.renderVideo, statement by statement ----

MaxCustomCalls == 1

\* the statements of the try block of renderVideo, in program order; the
\* upper-case ones are progressTracker.updateStage calls, the last one is
\* progressTracker.complete, which reports COMPLETE
RenderSteps == << "validateJobData", "VALIDATION", "DOWNLOAD_START",
                  "downloadMediaFiles", "validateFile", "DOWNLOAD_COMPLETE",
                  "PROCESSING_START", "processMedia", "PROCESSING_COMPLETE",
                  "getOutputMetadata", "uploadAndCleanup", "UPLOAD_COMPLETE",
                  "completeJob", "cleanup", "COMPLETE" >>

\* ProgressTracker.stages: the percentage of every stage
StageProgress == [ VALIDATION |-> 5, DOWNLOAD_START |-> 10,
                   DOWNLOAD_COMPLETE |-> 25, PROCESSING_START |-> 30,
                   PROCESSING_COMPLETE |-> 90, UPLOAD_COMPLETE |-> 95,
                   COMPLETE |-> 100 ]

Stages == DOMAIN StageProgress

\* the statements that can throw: getOutputMetadata, completeJob and cleanup
\* catch their own errors
ThrowingSteps == { "validateJobData", "downloadMediaFiles", "validateFile",
                   "processMedia", "uploadAndCleanup" }

\* the statements that read the job or touch the scratch files; each has an
\* action of its own
FileSteps == { "validateJobData", "downloadMediaFiles", "validateFile",
               "processMedia", "uploadAndCleanup", "cleanup" }

ReturnedStep == Len(RenderSteps) + 1
CatchStep == Len(RenderSteps) + 2
ThrownStep == Len(RenderSteps) + 3

\* the job of the run that is followed: the `job` of the first worker
RvJob == job[1]

\* `await this.jobManager.updateProgress(...)`: it returns, or the job
\* manager in use throws
ProgressOutcomes == {"ok", "throw"}

\* SupabaseJobManager.updateProgress only logs: the columns it leaves
UpdateProgress(row) == row

UpdateStageResult_NoCatch(o) == IF o = "throw" THEN "raise" ELSE "returned"

\* ProgressTracker.updateStage: the try/catch around updateProgress
UpdateStageResult(o) == "returned"

\* ProgressTracker.updateCustom: the try/catch around updateProgress
UpdateCustomResult(o) == "returned"

\* the next statement, or the catch block when statement `step` threw
RenderVideo_Goto(step, threw) ==
  IF threw
    THEN rvStep' = CatchStep /\ rvError' = step
    ELSE rvStep' = rvStep + 1 /\ rvError' = rvError

\* progressTracker.startTracking(job)
RenderVideo_StartTracking ==
  /\ rvStep = 0
  /\ rvStep' = 1
  /\ currentJob' = RvJob
  /\ UNCHANGED <<loopVars, mediaSide, serviceVars, runVars>>
  /\ UNCHANGED <<tableVars, workflowNotifier, jobHist, workerVars,
                 rvError, reported, progressErrors, customCalls>>

\* a statement of the pipeline proper: it completes or throws
RenderVideo_Statement ==
  /\ rvStep \in 1..Len(RenderSteps)
  /\ LET step == RenderSteps[rvStep]
     IN /\ step \notin Stages \cup {"completeJob"} \cup FileSteps
        /\ \E ok \in (IF step \in ThrowingSteps THEN BOOLEAN ELSE {TRUE}) :
             RenderVideo_Goto(step, ~ok)
  /\ UNCHANGED <<loopVars, mediaSide, serviceVars, runVars>>
  /\ UNCHANGED <<tableVars, workflowNotifier, jobHist, workerVars,
                 currentJob, reported, progressErrors, customCalls>>

\* progressTracker.updateStage(stage), and for COMPLETE the rest of
\* progressTracker.complete, which stops tracking
RenderVideo_UpdateStage ==
  /\ rvStep \in 1..Len(RenderSteps)
  /\ LET step == RenderSteps[rvStep]
     IN /\ step \in Stages
        /\ IF currentJob = NoJob
             THEN /\ RenderVideo_Goto(step, FALSE)
                  /\ UNCHANGED <<tableVars, currentJob, reported, progressErrors>>
             ELSE \E o \in ProgressOutcomes :
                    LET j == currentJob
                        row == UpdateProgress([status |-> status[j],
                                               final_video_url |-> final_video_url[j]])
                        r == UpdateStageResult(o)
                    IN /\ WriteRow(j, row)
                       /\ reported' = Append(reported, StageProgress[step])
                       /\ progressErrors' = progressErrors + (IF o = "throw" THEN 1 ELSE 0)
                       /\ RenderVideo_Goto(step, r = "raise")
                       /\ currentJob' = IF step = "COMPLETE" /\ r # "raise"
                                          THEN NoJob ELSE currentJob
  /\ UNCHANGED <<loopVars, mediaSide, serviceVars, runVars>>
  /\ UNCHANGED <<workflowNotifier, jobHist, workerVars, customCalls>>

\* progressTracker.updateCustom(progress, message), callable by any holder
\* of the tracker while a job is tracked
ProgressTracker_UpdateCustom ==
  /\ rvStep \in 1..Len(RenderSteps)
  /\ currentJob # NoJob
  /\ customCalls < MaxCustomCalls
  /\ customCalls' = customCalls + 1
  /\ \E o \in ProgressOutcomes :
       LET j == currentJob
           row == UpdateProgress([status |-> status[j],
                                  final_video_url |-> final_video_url[j]])
           r == UpdateCustomResult(o)
       IN /\ WriteRow(j, row)
          /\ progressErrors' = progressErrors + (IF o = "throw" THEN 1 ELSE 0)
          /\ IF r = "raise"
               THEN rvStep' = CatchStep /\ rvError' = "updateCustom"
               ELSE UNCHANGED <<rvStep, rvError>>
  /\ UNCHANGED <<loopVars, mediaSide, serviceVars, runVars>>
  /\ UNCHANGED <<workflowNotifier, jobHist, workerVars, currentJob, reported>>

\* `await this.jobManager.completeJob(job.id, uploadResult.url, metadata)`:
\* the lookup, the update and the notification; its result is not looked at
RenderVideo_CompleteJob ==
  /\ rvStep \in 1..Len(RenderSteps)
  /\ RenderSteps[rvStep] = "completeJob"
  /\ \E o \in StoreOutcomes : \E url \in RowUrl(o) :
       IF GetJobById(o, url) = "null"
         THEN UNCHANGED tableVars
         ELSE \E o2 \in StoreOutcomes :
                IF o2 = "ok"
                  THEN WriteRow(RvJob, CompleteJobData(final_video_url[RvJob], "new"))
                  ELSE UNCHANGED tableVars
  /\ RenderVideo_Goto("completeJob", FALSE)
  /\ UNCHANGED <<loopVars, mediaSide, serviceVars, runVars>>
  /\ UNCHANGED <<workflowNotifier, jobHist, workerVars,
                 currentJob, reported, progressErrors, customCalls>>

RenderVideo_Catch_KeepsTracking ==
  /\ rvStep = CatchStep
  /\ rvStep' = ThrownStep
  /\ \E o \in StoreOutcomes :
       IF o = "ok"
         THEN WriteRow(RvJob, FailJobData(final_video_url[RvJob]))
         ELSE UNCHANGED tableVars
  /\ currentJob' = currentJob
  /\ UNCHANGED <<loopVars, mediaSide, serviceVars, runVars>>
  /\ UNCHANGED <<workflowNotifier, jobHist, workerVars,
                 rvError, reported, progressErrors, customCalls>>

\* the catch block: failJob (lookup, update, notification), then
\* progressTracker.fail, which stops tracking, then `throw error`
RenderVideo_Catch ==
  /\ rvStep = CatchStep
  /\ rvStep' = ThrownStep
  /\ \E o \in StoreOutcomes :
       IF o = "ok"
         THEN WriteRow(RvJob, FailJobData(final_video_url[RvJob]))
         ELSE UNCHANGED tableVars
  /\ currentJob' = NoJob
  /\ UNCHANGED <<loopVars, mediaSide, serviceVars, runVars>>
  /\ UNCHANGED <<workflowNotifier, jobHist, workerVars,
                 rvError, reported, progressErrors, customCalls>>

\* ---- BackblazeUploader ----

MaxChannels == 2
MaxUploads == 2

ChannelIds == 1..MaxChannels

\* a number from -1 to 9 as the string that String.replace inserts
NumberToString(n) ==
  <<"-1", "0", "1", "2", "3", "4", "5", "6", "7", "8", "9">>[n + 2]

\* str.replace(token, value): the first occurrence only
ReplaceFirst(str, token, value) ==
  IF \E i \in DOMAIN str : str[i] = token
    THEN LET i == CHOOSE k \in DOMAIN str :
                    str[k] = token /\ \A m \in 1..(k - 1) : str[m] # token
         IN [str EXCEPT ![i] = value]
    ELSE str

GenerateKey_PerUpload(keyPattern, channelId, videoId) ==
  Append(ReplaceFirst(ReplaceFirst(keyPattern, "{channelId}", NumberToString(channelId)),
                      "{videoId}", NumberToString(videoId)),
         NumberToString(publish.calls))

\* generateKey(channelId, videoId)
GenerateKey(keyPattern, channelId, videoId) ==
  ReplaceFirst(ReplaceFirst(keyPattern, "{channelId}", NumberToString(channelId)),
               "{videoId}", NumberToString(videoId))

\* what uploadFile returns when upload.done() resolved
UploadResult(key) ==
  [success |-> TRUE, url |-> <<"publicBaseUrl", "/">> \o key, key |-> key]

ValidateUpload_Always(uploadResult) == TRUE

\* validateUpload: success, url and key are all truthy (a string is truthy
\* unless it is empty)
ValidateUpload(uploadResult) ==
  uploadResult.success /\ uploadResult.url # <<>> /\ uploadResult.key # <<>>

\* cleanupLocalFile: the file is removed if it is there; an error of the
\* removal is logged only
CleanupLocalFile(st) == IF st = "present" THEN "absent" ELSE st

\* ---- JobValidator ----

\* the values of a URL column: null, a string `new URL` rejects, a URL
Urls == {"null", "invalid", "valid"}

\* the values of an INTEGER / BIGINT column: null or a whole number
Numbers == {Null} \cup {[null |-> FALSE, v |-> n] : n \in (-1)..1}

\* the rows validateJobData can be handed
JobRows == [input_video_url : Urls, soundtrack_url : Urls,
            length_minutes : Numbers, channel_id : Numbers]

\* !job[field] for a URL column and for a numeric column
MissingUrl(u) == u = "null"
MissingNumber(x) == x.null \/ x.v = 0

\* isValidUrl
IsValidUrl(u) == u = "valid"

\* missingFields of validateJobData
MissingFields(j) ==
  {f \in {"input_video_url", "soundtrack_url"} : MissingUrl(j[f])}
    \cup {f \in {"length_minutes", "channel_id"} : MissingNumber(j[f])}

\* invalidFields of validateJobData
InvalidFields(j) ==
  {f \in {"length_minutes", "channel_id"} : ~MissingNumber(j[f]) /\ j[f].v <= 0}
    \cup {f \in {"input_video_url", "soundtrack_url"} :
            ~MissingUrl(j[f]) /\ ~IsValidUrl(j[f])}

ValidateJobData_RequiredOnly(j) == MissingFields(j) = {}

\* validateJobData(job).isValid
ValidateJobData(j) == MissingFields(j) = {} /\ InvalidFields(j) = {}

\* what the scratch files of processMedia and the uploader are left alone by
mediaRest == <<loopPc, pmPc, loopedPath, mergeCalls, pmRejectedBy, cleanupVars, planVars>>

\* validateJobData and the throw on an invalid job
RenderVideo_ValidateJobData ==
  /\ rvStep \in 1..Len(RenderSteps)
  /\ RenderSteps[rvStep] = "validateJobData"
  /\ RenderVideo_Goto("validateJobData", ~ValidateJobData(jobData))
  /\ UNCHANGED <<loopVars, mediaSide, serviceVars, runVars>>
  /\ UNCHANGED <<tableVars, workflowNotifier, jobHist, workerVars,
                 currentJob, reported, progressErrors, customCalls>>

\* a download that did not produce its file makes Promise.all reject
DownloadFailed(d) == d \in {"failed", "partial"}

\* config.download.retries when DOWNLOAD_RETRIES is not set
Retries == 3

\* the downloadFile calls downloadMediaFiles made for a branch that ended as
\* d: downloadVideo / downloadAudio call downloadFile once and return it
DownloadAttempts(d) == IF d = "none" THEN 0 ELSE 1

\* downloadMediaFiles: both downloads are started; each ends with its file
\* (of whatever size), or fails with or without a partial file on disk
RenderVideo_DownloadMediaFiles ==
  /\ rvStep \in 1..Len(RenderSteps)
  /\ RenderSteps[rvStep] = "downloadMediaFiles"
  /\ \E d \in [Branches -> {"present", "small", "failed", "partial"}] :
       /\ downloads' = d
       /\ RenderVideo_Goto("downloadMediaFiles", \E b \in Branches : DownloadFailed(d[b]))
  /\ UNCHANGED <<loopVars, mediaSide, serviceVars, jobData>>
  /\ UNCHANGED <<tableVars, workflowNotifier, jobHist, workerVars,
                 currentJob, reported, progressErrors, customCalls>>

ValidateFileThrows_Never(d) == FALSE

\* FileManager.validateFile on a downloaded file that ended as d: it throws
\* when the file is not there or `size < minSizeBytes`
ValidateFileThrows(d) == d \notin {"present"}

\* the two validateFile calls: a file below its minimum size throws
RenderVideo_ValidateFile ==
  /\ rvStep \in 1..Len(RenderSteps)
  /\ RenderSteps[rvStep] = "validateFile"
  /\ RenderVideo_Goto("validateFile", \E b \in Branches : ValidateFileThrows(downloads[b]))
  /\ UNCHANGED <<loopVars, mediaSide, serviceVars, runVars>>
  /\ UNCHANGED <<tableVars, workflowNotifier, jobHist, workerVars,
                 currentJob, reported, progressErrors, customCalls>>

\* processMedia: it returns the path of the merged file, or throws
RenderVideo_ProcessMedia ==
  /\ rvStep \in 1..Len(RenderSteps)
  /\ RenderSteps[rvStep] = "processMedia"
  /\ \E ok \in BOOLEAN :
       /\ RenderVideo_Goto("processMedia", ~ok)
       /\ files' = IF ok THEN [files EXCEPT !["merged"] = "present"] ELSE files
  /\ UNCHANGED <<loopVars, mediaRest, serviceVars, runVars>>
  /\ UNCHANGED <<tableVars, workflowNotifier, jobHist, workerVars,
                 currentJob, reported, progressErrors, customCalls>>

UploadAndCleanupResult_Swallow(verified) == "returned"

\* how uploadAndCleanup ends: its catch block logs and rethrows
UploadAndCleanupResult(verified) == IF verified THEN "returned" ELSE "raise"

\* uploadAndCleanup(outputPath, job.channel_id, job.id, false)
RenderVideo_UploadAndCleanup ==
  /\ rvStep \in 1..Len(RenderSteps)
  /\ RenderSteps[rvStep] = "uploadAndCleanup"
  /\ \E o \in {"ok", "error"} :
       LET c == jobData.channel_id.v
           key == GenerateKey(publish.keyPattern, c, RvJob)
           ok == o = "ok" /\ files["merged"] # "absent"
           verified == ok /\ ValidateUpload(UploadResult(key))
           r == UploadAndCleanupResult(verified)
       IN /\ publish' = [publish EXCEPT
               !.calls = @ + 1,
               !.bucket = IF ok THEN @ \cup {key} ELSE @,
               !.keys = Append(@, [channelId |-> c, videoId |-> RvJob, key |-> key, ok |-> ok]),
               !.result = IF verified THEN "returned" ELSE "raised"]
          /\ files' = IF verified
                        THEN [files EXCEPT !["merged"] = CleanupLocalFile(@)]
                        ELSE files
          /\ RenderVideo_Goto("uploadAndCleanup", r = "raise")
  /\ UNCHANGED <<loopVars, mediaRest, di, merge, runVars>>
  /\ UNCHANGED <<tableVars, workflowNotifier, jobHist, workerVars,
                 currentJob, reported, progressErrors, customCalls>>

\* downloader.cleanup([videoPath, audioPath]); it never throws
RenderVideo_Cleanup ==
  /\ rvStep \in 1..Len(RenderSteps)
  /\ RenderSteps[rvStep] = "cleanup"
  /\ downloads' = [b \in Branches |-> "removed"]
  /\ RenderVideo_Goto("cleanup", FALSE)
  /\ UNCHANGED <<loopVars, mediaSide, serviceVars, jobData>>
  /\ UNCHANGED <<tableVars, workflowNotifier, jobHist, workerVars,
                 currentJob, reported, progressErrors, customCalls>>

NextRender ==
  \/ RenderVideo_StartTracking
  \/ RenderVideo_ValidateJobData
  \/ RenderVideo_DownloadMediaFiles
  \/ RenderVideo_ValidateFile
  \/ RenderVideo_ProcessMedia
  \/ RenderVideo_UploadAndCleanup
  \/ RenderVideo_Cleanup
  \/ RenderVideo_Statement
  \/ RenderVideo_UpdateStage
  \/ ProgressTracker_UpdateCustom
  \/ RenderVideo_CompleteJob
  \/ RenderVideo_Catch

\* the first worker has claimed a job and enters renderVideo
InitRender ==
  /\ \E j \in Jobs :
       /\ status = [k \in Jobs |-> IF k = j THEN "rendering" ELSE "waiting_render"]
       /\ job = [w \in Workers |-> IF w = 1 THEN j ELSE NoJob]
       /\ claimCount = [k \in Jobs |-> IF k = j THEN 1 ELSE 0]
       /\ renderCount = [k \in Jobs |-> IF k = j THEN 1 ELSE 0]
       /\ maxClaimed = j
  /\ final_video_url = [k \in Jobs |-> "null"]
  /\ workflowNotifier \in BOOLEAN
  /\ pc = [w \in Workers |-> IF w = 1 THEN "validate" ELSE "poll"]
  /\ claimResult = [w \in Workers |-> IF w = 1 THEN "job" ELSE "none"]
  /\ lostRace = [w \in Workers |-> NoJob]
  /\ found = [w \in Workers |-> "none"]
  /\ updateSuccess = [w \in Workers |-> "none"]
  /\ notifyResult = [w \in Workers |-> "none"]
  /\ ret = [w \in Workers |-> "none"]
  /\ statusWrites = [w \in Workers |-> 0]
  /\ failCalled = [w \in Workers |-> 0]
  /\ RenderIdle
  /\ MediaIdle
  /\ CleanupIdle
  /\ PlanIdle
  /\ jobData \in JobRows
  /\ downloads = [b \in Branches |-> "none"]
  /\ ServiceIdle
  /\ LoopIdle

SpecRender == InitRender /\ [][NextRender]_vars

\* ---- MediaOrchestrator.processMedia ----

\* the intermediate file each branch writes
OutputOf == [video |-> "looped_video", audio |-> "looped_audio"]

\* outcome of an ffprobe call or of an ffmpeg run
ToolOutcomes == {"ok", "error"}

\* no worker of the claim protocol is followed
WorkersIdle ==
  /\ workflowNotifier = TRUE
  /\ pc = [w \in Workers |-> "poll"]
  /\ job = [w \in Workers |-> NoJob]
  /\ claimResult = [w \in Workers |-> "none"]
  /\ lostRace = [w \in Workers |-> NoJob]
  /\ found = [w \in Workers |-> "none"]
  /\ updateSuccess = [w \in Workers |-> "none"]
  /\ notifyResult = [w \in Workers |-> "none"]
  /\ ret = [w \in Workers |-> "none"]
  /\ statusWrites = [w \in Workers |-> 0]
  /\ failCalled = [w \in Workers |-> 0]
  /\ maxClaimed = NoJob
  /\ claimCount = [j \in Jobs |-> 0]
  /\ renderCount = [j \in Jobs |-> 0]
  /\ RenderIdle
  /\ RunIdle

\* the claim protocol and the renderVideo run stand still
ClaimIdle ==
  /\ status = [j \in Jobs |-> "waiting_render"]
  /\ final_video_url = [j \in Jobs |-> "null"]
  /\ WorkersIdle

\* and neither the retry loop nor a batch is followed
ClaimSideIdle == ClaimIdle /\ LoopIdle

claimSide == <<tableVars, workflowNotifier, jobHist, workerVars, renderVars, runVars, loopVars>>

RECURSIVE CleanupFrom(_, _, _)
\* FileManager.cleanup of the media pipeline from entry i on: an entry that
\* is null or does not exist is skipped, a removal that throws ends the loop
\* (the try block is around the whole loop) and the error is only logged
CleanupFrom(st, paths, i) ==
  IF i > Len(paths) THEN st
  ELSE LET p == paths[i]
       IN IF p = "null" \/ st[p] = "absent" THEN CleanupFrom(st, paths, i + 1)
          ELSE IF st[p] = "locked" THEN st
          ELSE CleanupFrom([st EXCEPT ![p] = "absent"], paths, i + 1)

\* FileManager.cleanup(filePaths): the files left
Cleanup(st, paths) == CleanupFrom(st, paths, 1)

\* [loopedVideoPath, loopedAudioPath], null where the local is not set
LoopedPaths(lp) ==
  << IF lp["video"] THEN "looped_video" ELSE "null",
     IF lp["audio"] THEN "looped_audio" ELSE "null" >>

\* .filter(Boolean)
FilterBoolean(paths) == SelectSeq(paths, LAMBDA p : p # "null")

AllResolved_Any(lpc) == \E b \in Branches : lpc[b] = "resolved"

\* Promise.all fulfils when every operation has fulfilled
AllResolved(lpc) == \A b \in Branches : lpc[b] = "resolved"

\* Promise.all rejects as soon as one operation has rejected
AnyRejected(lpc) == \E b \in Branches : lpc[b] = "rejected"

CatchCleans_Never(lp) == FALSE

\* `if (loopedVideoPath || loopedAudioPath)` of the catch block
CatchCleans(lp) == lp["video"] \/ lp["audio"]

\* getMediaDuration(inputPath) is answered
Loop_GetMediaDuration(b) ==
  /\ loopPc[b] = "probe"
  /\ \E o \in ToolOutcomes :
       loopPc' = [loopPc EXCEPT ![b] = IF o = "error" THEN "rejected"
                                       ELSE IF b = "video" THEN "info" ELSE "start"]
  /\ UNCHANGED <<claimSide, serviceVars, cleanupVars, planVars, pmPc, loopedPath, files, mergeCalls, pmRejectedBy>>

\* getVideoInfo(inputPath) is answered (loopVideo only)
LoopVideo_GetVideoInfo ==
  /\ loopPc["video"] = "info"
  /\ \E o \in ToolOutcomes :
       loopPc' = [loopPc EXCEPT !["video"] = IF o = "error" THEN "rejected" ELSE "start"]
  /\ UNCHANGED <<claimSide, serviceVars, cleanupVars, planVars, pmPc, loopedPath, files, mergeCalls, pmRejectedBy>>

\* the promise executor: the command is built and run, ffmpeg starts writing
\* the output file; an exception while building the command rejects
Loop_Run(b) ==
  /\ loopPc[b] = "start"
  /\ \E built \in BOOLEAN :
       IF built
         THEN /\ loopPc' = [loopPc EXCEPT ![b] = "running"]
              /\ files' = [files EXCEPT ![OutputOf[b]] = "present"]
         ELSE /\ loopPc' = [loopPc EXCEPT ![b] = "rejected"]
              /\ files' = files
  /\ UNCHANGED <<claimSide, serviceVars, cleanupVars, planVars, pmPc, loopedPath, mergeCalls, pmRejectedBy>>

\* ffmpeg emits 'end' (resolve) or 'error' (reject); after an error the
\* partial output may or may not be left behind
Loop_Settle(b) ==
  /\ loopPc[b] = "running"
  /\ \E o \in ToolOutcomes :
       IF o = "ok"
         THEN /\ loopPc' = [loopPc EXCEPT ![b] = "resolved"]
              /\ files' = files
         ELSE /\ loopPc' = [loopPc EXCEPT ![b] = "rejected"]
              /\ \E left \in {"absent", "present"} :
                   files' = [files EXCEPT ![OutputOf[b]] = left]
  /\ UNCHANGED <<claimSide, serviceVars, cleanupVars, planVars, pmPc, loopedPath, mergeCalls, pmRejectedBy>>

\* `await Promise.all([...])` fulfils: both locals are assigned
ProcessMedia_AllFulfilled ==
  /\ pmPc = "awaitAll"
  /\ AllResolved(loopPc)
  /\ ~AnyRejected(loopPc)
  /\ loopedPath' = [b \in Branches |-> TRUE]
  /\ pmPc' = "merge"
  /\ UNCHANGED <<claimSide, serviceVars, cleanupVars, planVars, loopPc, files, mergeCalls, pmRejectedBy>>

\* `await Promise.all([...])` rejects: the destructuring assignment does not
\* take place and control goes to the catch block
ProcessMedia_AllRejected ==
  /\ pmPc = "awaitAll"
  /\ \E b \in Branches :
       /\ loopPc[b] = "rejected"
       /\ pmRejectedBy' = b
  /\ pmPc' = "catch"
  /\ UNCHANGED <<claimSide, serviceVars, cleanupVars, planVars, loopPc, loopedPath, files, mergeCalls>>

\* mediaMerger.mergeVideoAudio(loopedVideoPath, loopedAudioPath, outputPath)
ProcessMedia_Merge ==
  /\ pmPc = "merge"
  /\ mergeCalls' = mergeCalls + 1
  /\ \E o \in ToolOutcomes :
       IF o = "ok"
         THEN /\ files' = [files EXCEPT !["merged"] = "present"]
              /\ pmPc' = "cleanup"
              /\ pmRejectedBy' = pmRejectedBy
         ELSE /\ \E left \in {"absent", "present"} :
                   files' = [files EXCEPT !["merged"] = left]
              /\ pmPc' = "catch"
              /\ pmRejectedBy' = "merge"
  /\ UNCHANGED <<claimSide, serviceVars, cleanupVars, planVars, loopPc, loopedPath>>

\* `await this.fileManager.cleanup([loopedVideoPath, loopedAudioPath])`,
\* then `return finalOutputPath`
ProcessMedia_Cleanup ==
  /\ pmPc = "cleanup"
  /\ files' = Cleanup(files, LoopedPaths(loopedPath))
  /\ pmPc' = "returned"
  /\ UNCHANGED <<claimSide, serviceVars, cleanupVars, planVars, loopPc, loopedPath, mergeCalls, pmRejectedBy>>

\* the catch block: cleanup of the locals that are set, then `throw error`
ProcessMedia_Catch ==
  /\ pmPc = "catch"
  /\ files' = IF CatchCleans(loopedPath)
                THEN Cleanup(files, FilterBoolean(LoopedPaths(loopedPath)))
                ELSE files
  /\ pmPc' = "rejected"
  /\ UNCHANGED <<claimSide, serviceVars, cleanupVars, planVars, loopPc, loopedPath, mergeCalls, pmRejectedBy>>

NextMedia ==
  \/ \E b \in Branches : Loop_GetMediaDuration(b)
  \/ LoopVideo_GetVideoInfo
  \/ \E b \in Branches : Loop_Run(b)
  \/ \E b \in Branches : Loop_Settle(b)
  \/ ProcessMedia_AllFulfilled
  \/ ProcessMedia_AllRejected
  \/ ProcessMedia_Merge
  \/ ProcessMedia_Cleanup
  \/ ProcessMedia_Catch

\* processMedia has been called: both loop operations have been started;
\* the looped paths, made unique by a uuid, do not exist yet, the merge
\* output (the caller's outputPath or merged_<timestamp>.mp4) may
InitMedia ==
  /\ ClaimSideIdle
  /\ ServiceIdle
  /\ loopPc = [b \in Branches |-> "probe"]
  /\ pmPc = "awaitAll"
  /\ loopedPath = [b \in Branches |-> FALSE]
  /\ \E m \in {"absent", "present"} :
       files = [p \in Paths |-> IF p = "merged" THEN m ELSE "absent"]
  /\ mergeCalls = 0
  /\ pmRejectedBy = "none"
  /\ CleanupIdle
  /\ PlanIdle

SpecMedia == InitMedia /\ [][NextMedia]_vars

\* ---- FileManager.cleanup, media and base ----

MaxPaths == 2
MaxCleanupCalls == 2

RECURSIVE BaseCleanupFrom(_, _, _)
\* cleanup of the base FileManager from entry i on: the try block is inside
\* the loop, so a removal that throws is recorded and the loop goes on
BaseCleanupFrom(st, paths, i) ==
  IF i > Len(paths) THEN st
  ELSE LET p == paths[i]
       IN IF p = "null" \/ st[p] # "present" THEN BaseCleanupFrom(st, paths, i + 1)
          ELSE BaseCleanupFrom([st EXCEPT ![p] = "absent"], paths, i + 1)

\* FileManager.cleanup(filePaths) of the base class: the files left
BaseCleanup(st, paths) == BaseCleanupFrom(st, paths, 1)

\* some fs.remove of the call throws
RemovalThrows(st, paths) ==
  \E i \in 1..Len(paths) : paths[i] # "null" /\ st[paths[i]] = "locked"

CleanupResult_NoCatch(st, paths) ==
  IF RemovalThrows(st, paths) THEN "raise" ELSE "returned"

\* how a cleanup call ends: both classes catch the error of a removal
CleanupResult(st, paths) == "returned"

\* one call cleanup(filePaths)
Cleanup_Call ==
  /\ cleanupCalls < MaxCleanupCalls
  /\ cleanupCalls' = cleanupCalls + 1
  /\ files' = IF cleanupImpl = "media" THEN Cleanup(files, filePaths)
                                       ELSE BaseCleanup(files, filePaths)
  /\ cleanupRaised' = (cleanupRaised \/ CleanupResult(files, filePaths) = "raise")
  /\ afterFirst' = IF cleanupCalls = 0 THEN files' ELSE afterFirst
  /\ UNCHANGED <<claimSide, serviceVars, planVars, cleanupImpl, filePaths,
                 loopPc, pmPc, loopedPath, mergeCalls, pmRejectedBy>>

NextCleanup == Cleanup_Call

\* the lists of at most n entries, each a path or null
PathLists(n) == UNION { [1..k -> Paths \cup {"null"}] : k \in 0..n }

\* cleanup is about to be called on some list, with every path in some state
InitCleanup ==
  /\ ClaimSideIdle
  /\ ServiceIdle
  /\ PlanIdle
  /\ loopPc = [b \in Branches |-> "idle"]
  /\ pmPc = "idle"
  /\ loopedPath = [b \in Branches |-> FALSE]
  /\ mergeCalls = 0
  /\ pmRejectedBy = "none"
  /\ files \in [Paths -> {"absent", "present", "locked"}]
  /\ cleanupImpl \in {"media", "base"}
  /\ filePaths \in PathLists(MaxPaths)
  /\ cleanupCalls = 0
  /\ cleanupRaised = FALSE
  /\ afterFirst = files

SpecCleanup == InitCleanup /\ [][NextCleanup]_vars

\* ---- loopVideo and loopAudio: the loop count and the ffmpeg command ----

MaxDuration == 30
MaxMinutes == 10

\* what getMediaDuration can resolve to: parseFloat of the probed duration,
\* NaN when it is not a number, otherwise a number of seconds of any sign
ProbedDurations ==
  {[nan |-> TRUE, v |-> 0]} \cup {[nan |-> FALSE, v |-> d] : d \in (-1)..MaxDuration}

\* targetDuration = durationMinutes * 60
TargetDuration(minutes) == minutes * 60

Ceil_Floor(a, b) == a \div b

\* Math.ceil(a / b) for b # 0
Ceil(a, b) == IF b > 0 THEN -((-a) \div b) ELSE -(a \div (-b))

\* loops = Math.ceil(targetDuration / inputDuration), targetDuration > 0:
\* NaN for a NaN duration, Infinity for a duration of 0
Loops(target, d) ==
  IF d.nan THEN [kind |-> "nan", n |-> 0]
  ELSE IF d.v = 0 THEN [kind |-> "inf", n |-> 0]
  ELSE Num(Ceil(target, d.v))

\* loops > 10
MoreThanTen(loops) ==
  \/ loops.kind = "inf"
  \/ loops.kind = "num" /\ loops.n > 10

\* Array(loops) throws a RangeError
ArrayThrows(loops) == loops.kind # "num" \/ loops.n < 0

\* the command of loopVideo: -stream_loop above ten loops, else one input per
\* loop and a concat filter; both with -t targetDuration.  An exception in
\* the promise executor rejects before anything is run.
LoopVideoCommand(loops, target) ==
  IF MoreThanTen(loops)
  THEN [planned |-> TRUE, issued |-> TRUE, strategy |-> "repeat", loops |-> loops, t |-> target]
  ELSE IF ArrayThrows(loops)
  THEN [planned |-> TRUE, issued |-> FALSE, strategy |-> "none", loops |-> loops, t |-> 0]
  ELSE [planned |-> TRUE, issued |-> TRUE, strategy |-> "concatenate", loops |-> loops, t |-> target]

LoopAudioCommand_NoTrim(loops, target) ==
  [planned |-> TRUE, issued |-> TRUE, strategy |-> "repeat", loops |-> loops, t |-> 0]

\* the command of loopAudio: always -stream_loop, with -t targetDuration
LoopAudioCommand(loops, target) ==
  [planned |-> TRUE, issued |-> TRUE, strategy |-> "repeat", loops |-> loops, t |-> target]

\* loopVideo from the probed duration to the run of the command
LoopVideo_Plan ==
  /\ ~command["video"].planned
  /\ command' = [command EXCEPT !["video"] =
       LoopVideoCommand(Loops(TargetDuration(durationMinutes), inputDuration["video"]),
                        TargetDuration(durationMinutes))]
  /\ UNCHANGED <<claimSide, serviceVars, mediaVars, cleanupVars,
                 inputDuration, durationMinutes, videoInfo, maxHeight, scaleFilter>>

\* loopAudio from the probed duration to the run of the command
LoopAudio_Plan ==
  /\ ~command["audio"].planned
  /\ command' = [command EXCEPT !["audio"] =
       LoopAudioCommand(Loops(TargetDuration(durationMinutes), inputDuration["audio"]),
                        TargetDuration(durationMinutes))]
  /\ UNCHANGED <<claimSide, serviceVars, mediaVars, cleanupVars,
                 inputDuration, durationMinutes, videoInfo, maxHeight, scaleFilter>>

NextPlan ==
  \/ LoopVideo_Plan
  \/ LoopAudio_Plan

\* both loops have probed their source, for a job of some length
InitPlan ==
  /\ ClaimSideIdle
  /\ ServiceIdle
  /\ MediaIdle
  /\ CleanupIdle
  /\ inputDuration \in [Branches -> ProbedDurations]
  /\ durationMinutes \in 1..MaxMinutes
  /\ command = [b \in Branches |-> NoCommand]
  /\ videoInfo = [width |-> 1, height |-> 1]
  /\ maxHeight = 0
  /\ scaleFilter = NoFilter

SpecPlan == InitPlan /\ [][NextPlan]_vars

\* ---- getVideoScaleFilter ----

MaxDim == 8

\* Math.round(a / b) for a >= 0 and b > 0: halves round up
Round(a, b) == (2 * a + b) \div (2 * b)

Even_Keep(n) == n

\* n % 2 === 0 ? n : n - 1
Even(n) == IF n % 2 = 0 THEN n ELSE n - 1

\* getVideoScaleFilter(videoInfo) under compressionSettings.maxHeight mh;
\* a maxHeight of null, like a missing height, is 0 here: both are falsy
GetVideoScaleFilter(info, mh) ==
  IF mh = 0 \/ info.height = 0 THEN [called |-> TRUE, filter |-> FALSE, width |-> 0, height |-> 0]
  ELSE IF info.height > mh
  THEN [called |-> TRUE, filter |-> TRUE,
        width |-> Even(Round(mh * info.width, info.height)), height |-> Even(mh)]
  ELSE [called |-> TRUE, filter |-> FALSE, width |-> 0, height |-> 0]

\* loopVideo asks for the scale filter of the probed video
LoopVideo_GetVideoScaleFilter ==
  /\ ~scaleFilter.called
  /\ scaleFilter' = GetVideoScaleFilter(videoInfo, maxHeight)
  /\ UNCHANGED <<claimSide, serviceVars, mediaVars, cleanupVars,
                 inputDuration, durationMinutes, command, videoInfo, maxHeight>>

NextScale == LoopVideo_GetVideoScaleFilter

\* a probed video of some size, under a profile with some maxHeight or none
InitScale ==
  /\ ClaimSideIdle
  /\ ServiceIdle
  /\ MediaIdle
  /\ CleanupIdle
  /\ inputDuration = [b \in Branches |-> [nan |-> FALSE, v |-> 1]]
  /\ durationMinutes = 1
  /\ command = [b \in Branches |-> NoCommand]
  /\ videoInfo \in [width : 1..MaxDim, height : 0..MaxDim]
  /\ maxHeight \in 0..MaxDim
  /\ scaleFilter = NoFilter

SpecScale == InitScale /\ [][NextScale]_vars

\* ---- compression presets and MediaMerger.mergeVideoAudio ----

MaxLooped == 4

\* MediaProcessorFactory.getCompressionPresets(): the registry, with the
\* fields the model reads (maxHeight null is 0)
CompressionPresets ==
  [n \in {"youtube-4k", "youtube-2k", "youtube-1080p", "youtube-720p",
          "ultra", "high", "medium", "small", "tiny"} |->
     CASE n = "youtube-4k"    -> [maxHeight |-> 2160, audioBitrate |-> "384k"]
       [] n = "youtube-2k"    -> [maxHeight |-> 1440, audioBitrate |-> "192k"]
       [] n = "youtube-1080p" -> [maxHeight |-> 1080, audioBitrate |-> "128k"]
       [] n = "youtube-720p"  -> [maxHeight |-> 720,  audioBitrate |-> "96k"]
       [] n = "ultra"         -> [maxHeight |-> 0,    audioBitrate |-> "192k"]
       [] n = "high"          -> [maxHeight |-> 1440, audioBitrate |-> "128k"]
       [] n = "medium"        -> [maxHeight |-> 1080, audioBitrate |-> "96k"]
       [] n = "small"         -> [maxHeight |-> 720,  audioBitrate |-> "64k"]
       [] n = "tiny"          -> [maxHeight |-> 480,  audioBitrate |-> "48k"]]

PresetNames == DOMAIN CompressionPresets

MergeOptions_NoShortest(audioBitrate) ==
  [videoCopy |-> TRUE, audioBitrate |-> audioBitrate, audioCodec |-> "aac",
   fastStart |-> TRUE, shortest |-> FALSE]

\* mergeOptions when the caller passes no options, as processMedia does
MergeOptions(audioBitrate) ==
  [videoCopy |-> TRUE, audioBitrate |-> audioBitrate, audioCodec |-> "aac",
   fastStart |-> TRUE, shortest |-> TRUE]

\* the outputOptions pushed for these merge options (values apart)
OutputOptions(mo) ==
  (IF mo.videoCopy THEN {"-c:v copy"} ELSE {})
    \cup {"-c:a", "-b:a"}
    \cup (IF mo.fastStart THEN {"-movflags +faststart"} ELSE {})
    \cup (IF mo.shortest THEN {"-shortest"} ELSE {})

\* how long the file is that ffmpeg writes from a video and an audio input:
\* with -shortest it ends with the shorter input, without with the longer
MergedDuration(options, v, a) ==
  IF "-shortest" \in options
    THEN (IF v <= a THEN v ELSE a)
    ELSE (IF v >= a THEN v ELSE a)

\* mergeVideoAudio(loopedVideoPath, loopedAudioPath, outputPath) runs
MergeVideoAudio_Run ==
  /\ ~merge.issued
  /\ LET mo == MergeOptions(CompressionPresets[merge.settings].audioBitrate)
     IN merge' = [merge EXCEPT !.issued = TRUE,
                               !.options = OutputOptions(mo),
                               !.bitrate = mo.audioBitrate,
                               !.duration = MergedDuration(OutputOptions(mo),
                                                           merge.video, merge.audio)]
  /\ UNCHANGED <<claimSide, mediaSide, di, publish>>

NextMerge == MergeVideoAudio_Run

\* both loops have written their file, under the profile of some preset
InitMerge ==
  /\ ClaimSideIdle
  /\ MediaIdle
  /\ CleanupIdle
  /\ PlanIdle
  /\ di = NoContainer
  /\ publish = NoPublish
  /\ \E v \in 1..MaxLooped, a \in 1..MaxLooped, n \in PresetNames :
       merge = [NoMerge EXCEPT !.video = v, !.audio = a, !.settings = n]

SpecMerge == InitMerge /\ [][NextMerge]_vars

\* ---- main(): the DI container and the compression profile ----

MaxResolves == 2
MaxJobsRun == 2

\* the values COMPRESSION_PRESET can have: not set, a registered name, or a
\* name that is not in the registry
EnvPresets == {"unset", "bogus"} \cup PresetNames

\* process.env.COMPRESSION_PRESET || 'youtube-1080p'
ConfiguredPreset(env) == IF env = "unset" THEN "youtube-1080p" ELSE env

CreateWithPreset_Default(presetName) ==
  IF presetName \in PresetNames THEN presetName ELSE "youtube-1080p"

\* MediaProcessorFactory.createWithPreset: the orchestrator built on the
\* settings of that preset (named by it), or an Error for an unknown name
CreateWithPreset(presetName) ==
  IF presetName \in PresetNames THEN presetName ELSE "throw"

IsSingleton_Never(name) == FALSE

\* register(name, factory, isSingleton = true): configureDI passes no flag
IsSingleton(name) == TRUE

\* DIContainer.resolve('processor'): the container afterwards and the value
\* returned ("throw" when the factory threw)
Resolve(d) ==
  LET made == CreateWithPreset(d.compressionPreset)
      called == [d EXCEPT !.factoryCalls = @ + 1]
  IN IF IsSingleton("processor")
       THEN IF d.singleton = "none"
              THEN IF made = "throw"
                     THEN [d |-> called, value |-> "throw"]
                     ELSE [d |-> [called EXCEPT !.singleton = made], value |-> made]
              ELSE [d |-> d, value |-> d.singleton]
       ELSE [d |-> called, value |-> made]

\* configureDI(): the factories are registered, none is called
Main_ConfigureDI ==
  /\ di.phase = "main"
  /\ di' = [di EXCEPT !.phase = "configured",
                      !.compressionPreset = ConfiguredPreset(di.env)]
  /\ UNCHANGED <<claimSide, mediaSide, merge, publish>>

\* container.createWorker(): the processor is resolved; an exception of the
\* factory reaches the catch block of main, which exits with code 1
Main_CreateWorker ==
  /\ di.phase = "configured"
  /\ LET r == Resolve(di)
     IN di' = IF r.value = "throw"
                THEN [r.d EXCEPT !.phase = "exit1"]
                ELSE [r.d EXCEPT !.phase = "started", !.processor = r.value]
  /\ UNCHANGED <<claimSide, mediaSide, merge, publish>>

\* a later container.resolve('processor')
Container_Resolve ==
  /\ di.phase = "started"
  /\ di.resolves < MaxResolves
  /\ di' = [Resolve(di).d EXCEPT !.resolves = @ + 1]
  /\ UNCHANGED <<claimSide, mediaSide, merge, publish>>

\* processAllJobs claims a job and renders it with this.processor
Worker_RenderJob ==
  /\ di.phase = "started"
  /\ Len(di.jobs) < MaxJobsRun
  /\ di' = [di EXCEPT !.jobs = Append(@, di.processor)]
  /\ UNCHANGED <<claimSide, mediaSide, merge, publish>>

\* worker.start() returns and main exits with code 0
Main_Exit ==
  /\ di.phase = "started"
  /\ di' = [di EXCEPT !.phase = "exit0"]
  /\ UNCHANGED <<claimSide, mediaSide, merge, publish>>

NextStartup ==
  \/ Main_ConfigureDI
  \/ Main_CreateWorker
  \/ Container_Resolve
  \/ Worker_RenderJob
  \/ Main_Exit

\* the process starts with some value of COMPRESSION_PRESET
InitStartup ==
  /\ ClaimSideIdle
  /\ MediaIdle
  /\ CleanupIdle
  /\ PlanIdle
  /\ merge = NoMerge
  /\ publish = NoPublish
  /\ \E e \in EnvPresets : di = [NoContainer EXCEPT !.env = e]

SpecStartup == InitStartup /\ [][NextStartup]_vars

\* ---- BackblazeUploader.uploadAndCleanup on its own ----

\* uploadAndCleanup(filePath, channelId, videoId, keepLocal): the upload
\* ends ok or in an error (always in an error without the file to read)
Uploader_UploadAndCleanup ==
  /\ publish.calls < MaxUploads
  /\ \E c \in ChannelIds, v \in Jobs, keep \in BOOLEAN, o \in {"ok", "error"} :
       LET key == GenerateKey(publish.keyPattern, c, v)
           ok == o = "ok" /\ files["merged"] # "absent"
           verified == ok /\ ValidateUpload(UploadResult(key))
       IN /\ publish' = [publish EXCEPT
               !.calls = @ + 1,
               !.keepLocal = keep,
               !.bucket = IF ok THEN @ \cup {key} ELSE @,
               !.keys = Append(@, [channelId |-> c, videoId |-> v, key |-> key, ok |-> ok]),
               !.result = IF verified THEN "returned" ELSE "raised"]
          /\ files' = IF verified /\ ~keep
                        THEN [files EXCEPT !["merged"] = CleanupLocalFile(@)]
                        ELSE files
  /\ UNCHANGED <<claimSide, cleanupVars, planVars, di, merge,
                 loopPc, pmPc, loopedPath, mergeCalls, pmRejectedBy>>

\* a later render writes its output file
Processor_WriteOutput ==
  /\ files["merged"] = "absent"
  /\ publish.calls \in 1..(MaxUploads - 1)
  /\ files' = [files EXCEPT !["merged"] = "present"]
  /\ UNCHANGED <<claimSide, cleanupVars, planVars, serviceVars,
                 loopPc, pmPc, loopedPath, mergeCalls, pmRejectedBy>>

NextUpload ==
  \/ Uploader_UploadAndCleanup
  \/ Processor_WriteOutput

\* a rendered file is on disk (removable or not); the uploader has the
\* configured key pattern or, by configOverride, an empty one
InitUpload ==
  /\ ClaimSideIdle
  /\ CleanupIdle
  /\ PlanIdle
  /\ loopPc = [b \in Branches |-> "idle"]
  /\ pmPc = "idle"
  /\ loopedPath = [b \in Branches |-> FALSE]
  /\ mergeCalls = 0
  /\ pmRejectedBy = "none"
  /\ \E st \in {"present", "locked"} :
       files = [p \in Paths |-> IF p = "merged" THEN st ELSE "absent"]
  /\ di = NoContainer
  /\ merge = NoMerge
  /\ \E kp \in {KeyPattern, <<>>} : publish = [NoPublish EXCEPT !.keyPattern = kp]

SpecUpload == InitUpload /\ [][NextUpload]_vars

\* ---- properties ----

\* C1: when several workers race for the same lowest-id waiting job, exactly
\* one getAndClaimJob call returns it and every other call returns null
C1_ExactlyOneClaimWins ==
  /\ \A j \in Jobs : claimCount[j] <= 1
  /\ \A w \in Workers :
       /\ lostRace[w] # NoJob =>
            (claimResult[w] = "null" /\ claimCount[lostRace[w]] = 1)
       /\ claimResult[w] = "job" => claimCount[job[w]] = 1

C1_Witness ==
  \E w, v \in Workers :
    /\ lostRace[w] # NoJob
    /\ claimResult[v] = "job" /\ job[v] = lostRace[w]

\* C2: a job is never returned to two workers and never rendered by two
\* workers, neither at the same time nor one after the other; a worker
\* inside renderVideo holds a job that was returned to it
C2_AtMostOneHolder ==
  \A j \in Jobs :
    /\ claimCount[j] <= 1
    /\ renderCount[j] <= 1
    /\ Cardinality({w \in Workers : job[w] = j /\ pc[w] \in RenderPcs}) <= 1
    /\ \A w \in Workers :
         (job[w] = j /\ pc[w] \in RenderPcs) =>
           (claimResult[w] = "job" /\ renderCount[j] = 1 /\ status[j] # "waiting_render")

C2_Witness ==
  \E w, v \in Workers :
    /\ lostRace[w] # NoJob /\ pc[w] = "done"
    /\ job[v] = lostRace[w] /\ pc[v] = "finish" /\ status[job[v]] = "rendered"

\* C3: started on rows without a final output, final_video_url is non-null
\* exactly for the rows whose status is rendered
C3_UrlIffRendered ==
  \A j \in Jobs : (final_video_url[j] # "null") <=> (status[j] = "rendered")

C3_Witness ==
  \E j, k \in Jobs :
    /\ status[j] = "rendered" /\ final_video_url[j] = "new"
    /\ status[k] = "failed" /\ renderCount[k] = 1

AllowedTransitions == { <<"waiting_render", "rendering">>,
                        <<"rendering", "rendered">>,
                        <<"rendering", "failed">> }

\* C4: the only status changes are waiting -> claimed, claimed -> rendered
\* and claimed -> failed, so rendered and failed are terminal
C4_OnlyForwardTransitions ==
  [][\A j \in Jobs :
       status'[j] # status[j] => <<status[j], status'[j]>> \in AllowedTransitions]_vars

C4_Witness ==
  \E j, k \in Jobs :
    /\ renderCount[j] = 1 /\ status[j] = "failed"
    /\ renderCount[k] = 1 /\ status[k] = "rendered"
    /\ \A w \in Workers : pc[w] = "done"

\* C5: a worker whose claim lost the race polls again; it does not end its
\* batch while a waiting job is left
C5_LostRaceRepolls ==
  [][\A w \in Workers :
       (lostRace'[w] # lostRace[w] /\ Eligible # {}) => pc'[w] = "poll"]_vars

\* C6: getAndClaimJob never raises, and a call that returns null has left
\* every job row as it was
C6_ClaimReturnsNullQuietly ==
  [][\A w \in Workers :
       (pc[w] \in {"poll", "claim"} /\ claimResult'[w] # claimResult[w]) =>
         /\ claimResult'[w] \in {"job", "null"}
         /\ claimResult'[w] = "null" =>
              (status' = status /\ final_video_url' = final_video_url)]_vars

C6_Witness ==
  \E w, v \in Workers :
    /\ claimResult[w] = "null" /\ lostRace[w] # NoJob
    /\ claimResult[v] = "null" /\ lostRace[v] = NoJob /\ Eligible # {}

\* C7: the job getAndClaimJob goes for is the smallest id among the waiting
\* rows without final output, a row with a final output is never claimed,
\* and jobs are claimed in strictly ascending id order
C7_ClaimsLowestEligible ==
  /\ [][\A w \in Workers :
          (pc[w] = "poll" /\ pc'[w] = "claim") =>
            /\ job'[w] \in Eligible
            /\ \A k \in Eligible : job'[w] <= k]_vars
  /\ [][\A w \in Workers :
          (pc[w] = "claim" /\ claimResult'[w] = "job") =>
            /\ status[job[w]] = "waiting_render"
            /\ final_video_url[job[w]] = "null"
            /\ job[w] > maxClaimed]_vars

C7_Witness ==
  \E w \in Workers :
    /\ claimResult[w] = "job" /\ job[w] = maxClaimed
    /\ \E k \in Jobs : k < job[w] /\ claimCount[k] = 1
    /\ \A v \in Workers \ {w} : pc[v] = "poll" /\ claimResult[v] = "none"

\* C8: completeJob issues its update whatever the lookup of the job returned
C8_CompleteJobAlwaysWrites ==
  \A w \in Workers : pc[w] = "finish" => statusWrites[w] >= 1

\* C9: a completion notification that failed leaves the job rendered with its
\* final_video_url, completeJob returns true and failJob is not called
C9_FailedNotificationKeepsRendered ==
  /\ [](\A w \in Workers :
         (pc[w] = "finish" /\ notifyResult[w] = "false") =>
           /\ status[job[w]] = "rendered"
           /\ final_video_url[job[w]] = "new"
           /\ ret[w] = "true"
           /\ failCalled[w] = 0)
  /\ [][\A w \in Workers :
          (pc[w] = "finish" /\ notifyResult[w] = "false" /\ pc'[w] # pc[w]) =>
            /\ pc'[w] = "poll"
            /\ status'[job[w]] = "rendered"
            /\ final_video_url'[job[w]] = "new"
            /\ failCalled'[w] = 0]_vars

C9_Witness ==
  \E w \in Workers :
    pc[w] = "finish" /\ notifyResult[w] = "false" /\ status[job[w]] = "rendered"

\* C10: failJob always issues the failed status write and never raises,
\* whether the lookup failed, the callback is absent or the notification failed
C10_FailJobAlwaysWrites ==
  \A w \in Workers :
    pc[w] = "thrown" => (statusWrites[w] >= 1 /\ ret[w] \in {"true", "false"})

C10_Witness ==
  \E w, v \in Workers :
    /\ pc[w] = "thrown" /\ notifyResult[w] = "false"
    /\ pc[v] = "thrown" /\ found[v] = "null"

\* C11: progress reporting is advisory: an updateStage or updateCustom call
\* leaves status and final_video_url of every job as they were and always
\* returns, so only a statement of the pipeline proper reaches the catch block
C11_ProgressIsAdvisory ==
  /\ [][(reported' # reported \/ customCalls' # customCalls) =>
          /\ status' = status
          /\ final_video_url' = final_video_url
          /\ rvError' = rvError
          /\ rvStep' # CatchStep]_vars
  /\ [](rvError \in ThrowingSteps \cup {"none"})

C11_Witness ==
  /\ rvStep = ReturnedStep
  /\ progressErrors = Len(reported) + customCalls
  /\ Len(reported) = Cardinality(Stages)
  /\ customCalls = 1
  /\ status[RvJob] = "rendered"

\* C12: the two loops run concurrently and the merge is invoked at most
\* once, only when both loops have completed successfully; when a loop has
\* failed the merge is never invoked
C12_MergeAfterBothLoops ==
  /\ mergeCalls <= 1
  /\ mergeCalls = 1 => \A b \in Branches : loopPc[b] = "resolved"
  /\ pmPc \in {"merge", "cleanup", "returned"} => \A b \in Branches : loopPc[b] = "resolved"
  /\ (\E b \in Branches : loopPc[b] = "rejected") => mergeCalls = 0

C12_Witness ==
  /\ mergeCalls = 1
  /\ pmPc = "returned"
  /\ files["merged"] = "present"

\* C13: once processMedia has rejected because a loop failed and the other
\* loop has finished, no looped file of the attempt exists
C13_FailedLoopLeavesNoFile ==
  (/\ pmPc = "rejected"
   /\ pmRejectedBy \in Branches
   /\ \A b \in Branches : loopPc[b] \in {"resolved", "rejected"})
    => \A b \in Branches : files[OutputOf[b]] = "absent"

C15_CleanupIdempotentTotal ==
  /\ ~cleanupRaised
  /\ cleanupCalls >= 2 => files = afterFirst

C15_Witness ==
  /\ cleanupCalls = 2
  /\ Len(filePaths) = 2
  /\ filePaths[1] = "null"
  /\ filePaths[2] # "null"
  /\ files[filePaths[2]] = "absent"
  /\ \E p \in Paths : files[p] = "locked"

\* C16: for a positive source duration the loop count of either loop is
\* ceil(60 * minutes / duration) of its own source: loops * d >= 60 * m and
\* (loops - 1) * d < 60 * m
C16_LoopCountIsCeiling ==
  \A b \in Branches :
    (command[b].planned /\ ~inputDuration[b].nan /\ inputDuration[b].v > 0) =>
      /\ command[b].loops.kind = "num"
      /\ command[b].loops.n * inputDuration[b].v >= 60 * durationMinutes
      /\ (command[b].loops.n - 1) * inputDuration[b].v < 60 * durationMinutes

C16_Witness ==
  /\ durationMinutes = 1
  /\ inputDuration["video"] = [nan |-> FALSE, v |-> 30]
  /\ inputDuration["audio"] = [nan |-> FALSE, v |-> 20]
  /\ command["video"].loops = Num(2)
  /\ command["audio"].loops = Num(3)

\* C17: the command of either loop concatenates when loops <= 10 and repeats
\* the stream when loops > 10
C17_StrategyByThreshold ==
  \A b \in Branches :
    (command[b].issued /\ command[b].loops.kind = "num") =>
      command[b].strategy = IF command[b].loops.n <= 10 THEN "concatenate" ELSE "repeat"

\* C18: every loop command that is run carries -t with 60 * minutes seconds
C18_CommandIsTrimmed ==
  \A b \in Branches : command[b].issued => command[b].t = 60 * durationMinutes

C18_Witness ==
  /\ command["video"].issued
  /\ command["video"].strategy = "concatenate"
  /\ command["audio"].issued
  /\ command["audio"].strategy = "repeat"
  /\ command["audio"].t = 60 * durationMinutes
  /\ durationMinutes > 1

\* C19: a loop whose source duration is zero, negative or not a number runs
\* no command
C19_InvalidDurationRunsNothing ==
  \A b \in Branches :
    (command[b].planned /\ (inputDuration[b].nan \/ inputDuration[b].v <= 0)) => ~command[b].issued

\* C20: for a video of positive width and height, getVideoScaleFilter gives a
\* filter exactly when maxHeight is set and the height exceeds it; the
\* filter's width and height are even, the height is at most maxHeight and
\* the width at most the source width
C20_ScaleFilterGuard ==
  (scaleFilter.called /\ videoInfo.height > 0) =>
    /\ scaleFilter.filter <=> (maxHeight # 0 /\ videoInfo.height > maxHeight)
    /\ scaleFilter.filter =>
         /\ scaleFilter.width % 2 = 0
         /\ scaleFilter.height % 2 = 0
         /\ scaleFilter.height <= maxHeight
         /\ scaleFilter.width <= videoInfo.width

C20_Witness ==
  /\ scaleFilter.called
  /\ scaleFilter.filter
  /\ videoInfo.height > maxHeight
  /\ maxHeight % 2 = 1
  /\ scaleFilter.height = maxHeight - 1
  /\ scaleFilter.width > 0
  /\ scaleFilter.width < videoInfo.width

\* C21: the merge copies the video stream, encodes the audio at the
\* profile's audioBitrate and passes -shortest, so the output lasts as long
\* as the shorter of the two looped inputs and no longer than either
C21_MergeCopiesAndTrims ==
  merge.issued =>
    /\ "-c:v copy" \in merge.options
    /\ "-b:a" \in merge.options
    /\ merge.bitrate = CompressionPresets[merge.settings].audioBitrate
    /\ "-shortest" \in merge.options
    /\ merge.duration = (IF merge.video <= merge.audio THEN merge.video ELSE merge.audio)
    /\ merge.duration <= merge.video
    /\ merge.duration <= merge.audio

C21_Witness ==
  /\ merge.issued
  /\ merge.settings = "youtube-4k"
  /\ merge.bitrate = "384k"
  /\ merge.audio < merge.video
  /\ merge.duration = merge.audio

\* C22: a 30 s video and a 20 s audio source with minutes = 1 are planned as
\* 2 loops and 3 loops, both by concatenation, both trimmed to 60 s
C22_EndToEndPlan ==
  ( /\ durationMinutes = 1
    /\ inputDuration["video"] = [nan |-> FALSE, v |-> 30]
    /\ inputDuration["audio"] = [nan |-> FALSE, v |-> 20]
    /\ command["video"].planned
    /\ command["audio"].planned ) =>
      /\ command["video"].loops = Num(2)
      /\ command["video"].strategy = "concatenate"
      /\ command["video"].t = 60
      /\ command["audio"].loops = Num(3)
      /\ command["audio"].strategy = "concatenate"
      /\ command["audio"].t = 60

\* C23: with a preset name that is not in the registry the worker is never
\* built: main exits on the error, no job is rendered and no processor, of
\* a default profile or any other, exists
C23_UnknownPresetAbortsStartup ==
  (di.phase # "main" /\ di.compressionPreset \notin PresetNames) =>
    /\ di.phase \in {"configured", "exit1"}
    /\ di.singleton = "none"
    /\ di.processor = "none"
    /\ di.jobs = <<>>

C23_Witness ==
  /\ di.env = "bogus"
  /\ di.phase = "exit1"
  /\ di.factoryCalls = 1

\* C24: the processor factory is called at most once however often the
\* processor is resolved, and every job is rendered with the profile of the
\* configured preset
C24_ProfileResolvedOnce ==
  /\ di.factoryCalls <= 1
  /\ \A i \in DOMAIN di.jobs :
       /\ di.jobs[i] = di.jobs[1]
       /\ di.jobs[i] = di.singleton
       /\ di.jobs[i] = di.compressionPreset

C24_Witness ==
  /\ di.resolves = 2
  /\ Len(di.jobs) = 2
  /\ di.factoryCalls = 1
  /\ di.jobs[2] = "tiny"

C26_RemovedOnlyAfterVerifiedUpload ==
  [][ publish'.calls = publish.calls + 1 =>
        LET e == publish'.keys[Len(publish'.keys)]
        IN /\ files' # files =>
                /\ e.ok
                /\ e.key # <<>>
                /\ publish'.result = "returned"
                /\ ~publish'.keepLocal
           /\ (~e.ok \/ e.key = <<>>) =>
                /\ files' = files
                /\ publish'.result = "raised" ]_vars

C26_Witness ==
  /\ publish.calls = 1
  /\ publish.keys[1].ok
  /\ publish.result = "returned"
  /\ ~publish.keepLocal
  /\ files["merged"] = "absent"

\* C27 as stated: after a failed upload the job has failed and the rendered
\* file is gone
C27_FailedUploadRemovesArtifact ==
  (rvStep = ThrownStep /\ rvError = "uploadAndCleanup") =>
    files["merged"] = "absent"

\* C27 amended: a failed upload takes renderVideo to its catch block, which
\* calls failJob; the job is never marked rendered and the rendered file
\* stays on disk
C27_FailedUploadKeepsArtifact ==
  (publish.calls = 1 /\ ~publish.keys[1].ok) =>
    /\ rvStep \in {CatchStep, ThrownStep}
    /\ rvError = "uploadAndCleanup"
    /\ files["merged"] = "present"
    /\ status[RvJob] # "rendered"
    /\ final_video_url[RvJob] = "null"

C27_Witness ==
  /\ rvStep = ThrownStep
  /\ rvError = "uploadAndCleanup"
  /\ publish.result = "raised"
  /\ status[RvJob] = "failed"
  /\ files["merged"] = "present"

\* C28: a job that validateJobData rejects goes from the validation straight
\* to the catch block, where failJob is called, and no download is started
C28_InvalidJobNeverDownloads ==
  /\ [](( \/ jobData.input_video_url # "valid"
           \/ jobData.soundtrack_url # "valid"
           \/ jobData.length_minutes.null
           \/ jobData.length_minutes.v <= 0
           \/ jobData.channel_id.null ) =>
          /\ \A b \in Branches : downloads[b] = "none"
          /\ rvStep \in {0, 1, CatchStep, ThrownStep}
          /\ rvStep \in {CatchStep, ThrownStep} => rvError = "validateJobData")
  /\ [][(( \/ jobData.input_video_url # "valid"
             \/ jobData.soundtrack_url # "valid"
             \/ jobData.length_minutes.null
             \/ jobData.length_minutes.v <= 0
             \/ jobData.channel_id.null ) /\ rvStep = 1 /\ rvStep' # rvStep)
        => rvStep' = CatchStep]_vars

C28_Witness ==
  /\ rvStep = ThrownStep
  /\ rvError = "validateJobData"
  /\ jobData.input_video_url = "valid"
  /\ jobData.soundtrack_url = "invalid"
  /\ jobData.length_minutes = [null |-> FALSE, v |-> 1]
  /\ jobData.channel_id = [null |-> FALSE, v |-> 1]
  /\ downloads = [b \in Branches |-> "none"]

\* C29: when the download or the size validation failed, no downloaded or
\* partly downloaded file of the job is left once the job has failed
C29_FailedFetchLeavesNoFile ==
  (rvStep = ThrownStep /\ rvError \in {"downloadMediaFiles", "validateFile"}) =>
    \A b \in Branches : downloads[b] \notin {"present", "small", "partial"}

MaxRetries == 6

\* what the claim protocol, the render and the services are left alone by
loopRest == <<tableVars, workflowNotifier, jobHist, workerVars, renderVars,
              runVars, mediaSide, serviceVars>>

\* `maxRetries || this.config.retries`: null and 0 are falsy
EffectiveRetries(maxRetries, configRetries) ==
  IF maxRetries.null \/ maxRetries.v = 0 THEN configRetries ELSE maxRetries.v

BackoffDelay_Uncapped(attempt) == 1000 * 2^(attempt - 1)

\* Math.min(1000 * Math.pow(2, attempt - 1), 10000)
BackoffDelay(attempt) ==
  IF 1000 * 2^(attempt - 1) < 10000 THEN 1000 * 2^(attempt - 1) ELSE 10000

\* the for statement has tested `attempt <= retries`
DownloadWithRetry_Loop(r) ==
  IF r.attempt <= r.retries THEN [r EXCEPT !.at = "downloadFile"]
                            ELSE [r EXCEPT !.at = "end", !.result = "undefined"]

\* `return await this.downloadFile(...)` inside the try, and the catch block:
\* the last attempt rethrows, an earlier one computes the delay and waits
DownloadWithRetry_DownloadFile ==
  /\ retry.at = "downloadFile"
  /\ \E o \in {"path", "error"} :
       LET r == [retry EXCEPT !.log = Append(@, o)]
       IN retry' = IF o = "path"
                     THEN [r EXCEPT !.at = "end", !.result = "returned",
                                    !.value = retry.attempt]
                     ELSE IF retry.attempt = retry.retries
                            THEN [r EXCEPT !.at = "end", !.result = "raised",
                                           !.value = retry.attempt]
                            ELSE [r EXCEPT !.at = "setTimeout",
                                           !.delays = Append(@, BackoffDelay(retry.attempt))]
  /\ UNCHANGED <<loopRest, batch>>

\* the timer fires; `attempt++` and the loop test
DownloadWithRetry_SetTimeout ==
  /\ retry.at = "setTimeout"
  /\ retry' = DownloadWithRetry_Loop([retry EXCEPT !.attempt = @ + 1])
  /\ UNCHANGED <<loopRest, batch>>

NextRetry ==
  \/ DownloadWithRetry_DownloadFile
  \/ DownloadWithRetry_SetTimeout

\* downloadWithRetry(url, ext, maxRetries) is entered: maxRetries is absent
\* or a count, config.download.retries a positive count
InitRetry ==
  /\ ClaimIdle
  /\ MediaIdle
  /\ CleanupIdle
  /\ PlanIdle
  /\ ServiceIdle
  /\ batch = <<>>
  /\ \E m \in {Null} \cup {[null |-> FALSE, v |-> n] : n \in 0..MaxRetries} :
     \E c \in 1..MaxRetries :
       retry = DownloadWithRetry_Loop(
                 [maxRetries |-> m, config |-> c,
                  retries |-> EffectiveRetries(m, c), attempt |-> 1,
                  at |-> "for", log |-> <<>>, delays |-> <<>>,
                  result |-> "running", value |-> 0])

SpecRetry == InitRetry /\ [][NextRetry]_vars

\* the event loop runs the call to its end
SpecRetryLive == SpecRetry /\ WF_vars(NextRetry)

\* ---- VideoRenderWorker.processAllJobs, call by call ----

\* what a batch leaves alone besides the table
batchRest == <<workflowNotifier, jobHist, workerVars, renderVars, runVars,
               mediaSide, serviceVars, retry>>

\* the locals of processAllJobs at its first statement
NewBatch == [at |-> "getAndClaimJob", job |-> NoJob, totalProcessed |-> 0,
             totalFailed |-> 0, jobResults |-> <<>>, claimed |-> <<>>,
             returnedFor |-> {}, stats |-> <<>>]

PushResult_CountOnly(b, jobId, success) ==
  [b EXCEPT !.totalProcessed = IF success THEN @ + 1 ELSE @,
            !.totalFailed = IF success THEN @ ELSE @ + 1]

\* totalProcessed++ / totalFailed++ and jobResults.push({jobId, success})
PushResult(b, jobId, success) ==
  [b EXCEPT !.totalProcessed = IF success THEN @ + 1 ELSE @,
            !.totalFailed = IF success THEN @ ELSE @ + 1,
            !.jobResults = Append(@, [jobId |-> jobId, success |-> success])]

\* the stats object built after the loop
BatchStats(b) ==
  [totalProcessed |-> b.totalProcessed, totalFailed |-> b.totalFailed,
   total |-> b.totalProcessed + b.totalFailed, results |-> b.jobResults]

\* `const job = await this.jobManager.getAndClaimJob()` as one call: the
\* select, then the conditional update, which matches no row when another
\* worker claimed the selected row in between; then `if (!job) break`, or
\* the outer catch when the call threw
ProcessAllJobs_GetAndClaimJob ==
  /\ batch.at = "getAndClaimJob"
  /\ \E o \in StoreOutcomes :
       IF o = "ok" /\ Eligible # {}
         THEN \E o2 \in StoreOutcomes : \E raced \in BOOLEAN :
                LET j == FirstById(Eligible)
                    res == IF o2 # "ok" THEN StoreFailureResult(o2)
                           ELSE UpdatedJobResult(~raced)
                IN /\ status' = IF raced \/ o2 = "ok"
                                  THEN [status EXCEPT ![j] = "rendering"] ELSE status
                   /\ batch' =
                        CASE res = "job" ->
                               [batch EXCEPT !.at = "renderVideo", !.job = j,
                                             !.claimed = Append(@, j)]
                          [] res = "raise" -> PushResult(batch, NoJob, FALSE)
                          [] OTHER ->
                               [batch EXCEPT !.at = "returned", !.stats = BatchStats(batch)]
         ELSE LET res == IF o = "ok" THEN "null" ELSE StoreFailureResult(o)
              IN /\ status' = status
                 /\ batch' = IF res = "raise"
                               THEN PushResult(batch, NoJob, FALSE)
                               ELSE [batch EXCEPT !.at = "returned",
                                                  !.stats = BatchStats(batch)]
  /\ UNCHANGED <<final_video_url, batchRest>>

\* `await this.renderVideo(job)` as one call: it returns after completeJob
\* or throws after failJob, whose writes the store applies or not
ProcessAllJobs_RenderVideo ==
  /\ batch.at = "renderVideo"
  /\ \E returned \in BOOLEAN : \E o \in StoreOutcomes :
       LET j == batch.job
       IN /\ IF o = "ok"
               THEN WriteRow(j, IF returned
                                  THEN CompleteJobData(final_video_url[j], "new")
                                  ELSE FailJobData(final_video_url[j]))
               ELSE UNCHANGED tableVars
          /\ batch' = [PushResult(batch, j, returned) EXCEPT
                         !.at = "getAndClaimJob", !.job = NoJob,
                         !.returnedFor = IF returned THEN @ \cup {j} ELSE @]
  /\ UNCHANGED batchRest

NextBatch ==
  \/ ProcessAllJobs_GetAndClaimJob
  \/ ProcessAllJobs_RenderVideo

\* one worker enters processAllJobs on a table as Init describes it
InitBatch ==
  /\ \E rows \in [Jobs -> InitialRows] :
       /\ status = [j \in Jobs |-> rows[j][1]]
       /\ final_video_url = [j \in Jobs |-> rows[j][2]]
  /\ WorkersIdle
  /\ MediaIdle
  /\ CleanupIdle
  /\ PlanIdle
  /\ ServiceIdle
  /\ retry = <<>>
  /\ batch = NewBatch

SpecBatch == InitBatch /\ [][NextBatch]_vars

\* C31: a job fails on its download only after a source download was
\* attempted the configured number of times
C31_DownloadRetriedBeforeFailing ==
  rvError = "downloadMediaFiles" =>
    \E b \in Branches :
      DownloadFailed(downloads[b]) /\ DownloadAttempts(downloads[b]) = Retries

\* C32: a worker is inside renderVideo exactly while the job its last
\* getAndClaimJob call returned is unfinished, it holds exactly one job then,
\* and it is at getAndClaimJob only when no claimed job of its own is pending
C32_OneRenderInFlight ==
  \A w \in Workers :
    /\ pc[w] \in RenderPcs <=> claimResult[w] = "job"
    /\ pc[w] \in RenderPcs => job[w] \in Jobs
    /\ pc[w] \in {"poll", "claim"} => claimResult[w] = "none"

\* a worker asks for its second job after the render of its first ended,
\* every other worker having stopped on losing the race for the first
C32_Witness ==
  \E w \in Workers :
    /\ pc[w] = "claim"
    /\ job[w] = 2
    /\ renderCount[1] = 1
    /\ status[1] \in {"rendered", "failed"}
    /\ \A v \in Workers \ {w} : pc[v] = "done" /\ lostRace[v] = 1

\* C33: once renderVideo is at or past processMedia, or a merged file
\* exists, both downloads produced a file of at least the minimum size; a
\* file below the minimum ends the run in the catch block at validateFile
\* (at downloadMediaFiles when the other download failed), before processMedia
C33_ProcessOnlyValidatedFiles ==
  LET at == CHOOSE i \in DOMAIN RenderSteps : RenderSteps[i] = "processMedia"
      started == \/ rvStep \in (at + 1)..ReturnedStep
                 \/ rvError \in {"processMedia", "uploadAndCleanup"}
                 \/ files["merged"] # "absent"
  IN /\ (rvStep = at \/ started) =>
          \A b \in Branches : downloads[b] \in {"present", "removed"}
     /\ (\E b \in Branches : downloads[b] = "small") =>
          /\ ~started
          /\ \/ rvStep < at
             \/ /\ rvStep \in {CatchStep, ThrownStep}
                /\ rvError = IF \E b \in Branches : DownloadFailed(downloads[b])
                               THEN "downloadMediaFiles" ELSE "validateFile"

\* a run whose audio came out below the minimum size has failed at
\* validateFile, nothing was merged
C33_Witness ==
  /\ downloads = [video |-> "present", audio |-> "small"]
  /\ rvStep = ThrownStep
  /\ rvError = "validateFile"
  /\ status[RvJob] = "failed"
  /\ files["merged"] = "absent"

\* C34: downloadWithRetry calls downloadFile at most `retries` times
\* (maxRetries, or the configured count when maxRetries is absent or 0); it
\* returns the path of the first call that succeeded, every call before it
\* having failed; the wait after the i-th failed call is
\* min(1000 * 2^(i-1), 10000) ms; when it raises, `retries` calls failed and
\* the error is that of the last one; and it comes to an end
C34_RetryIsBounded ==
  /\ [](/\ Len(retry.log) <= retry.retries
        /\ retry.retries = IF retry.maxRetries.null \/ retry.maxRetries.v = 0
                              THEN retry.config ELSE retry.maxRetries.v
        /\ \A i \in DOMAIN retry.delays :
             /\ retry.log[i] = "error"
             /\ retry.delays[i] = IF i = 1 THEN 1000
                                   ELSE IF i = 2 THEN 2000
                                   ELSE IF i = 3 THEN 4000
                                   ELSE IF i = 4 THEN 8000 ELSE 10000
        /\ Len(retry.delays) \in {Len(retry.log) - 1, Len(retry.log)}
        /\ retry.result = "returned" =>
             /\ retry.value = Len(retry.log)
             /\ retry.log[Len(retry.log)] = "path"
             /\ \A i \in 1..(Len(retry.log) - 1) : retry.log[i] = "error"
             /\ Len(retry.delays) = Len(retry.log) - 1
        /\ retry.result = "raised" =>
             /\ Len(retry.log) = retry.retries
             /\ retry.value = retry.retries
             /\ \A i \in DOMAIN retry.log : retry.log[i] = "error"
             /\ Len(retry.delays) = retry.retries - 1
        /\ retry.result # "undefined")
  /\ <>(retry.result # "running")

\* six attempts failed, the fifth wait was capped, and the error was raised
C34_Witness ==
  /\ retry.result = "raised"
  /\ retry.maxRetries = [null |-> FALSE, v |-> 6]
  /\ retry.delays = <<1000, 2000, 4000, 8000, 10000>>

\* C35: with a store that answers every request, once every worker has
\* left its loop no row is still waiting with a null final_video_url
C35_BatchDrainsQueue ==
  (\A w \in Workers : pc[w] = "done") => Eligible = {}

\* a worker stopped on a lost race and the batch still took every job
C35_Witness ==
  /\ \A w \in Workers : pc[w] = "done"
  /\ \E w \in Workers : lostRace[w] = 1
  /\ \A j \in Jobs : renderCount[j] = 1

\* C36: a renderVideo run that is about to return its result (completeJob
\* came back, nothing threw) has its row in status rendered with the
\* uploaded URL as final_video_url
C36_SuccessMeansRendered ==
  \A w \in Workers :
    pc[w] = "finish" =>
      /\ ret[w] = "true"
      /\ status[job[w]] = "rendered"
      /\ final_video_url[job[w]] = "new"

\* C37: whenever a worker leaves renderVideo, to claim its next job, to
\* finish its batch or because the process exits on a signal, the row of the
\* job it held is in a terminal status
C37_ClaimedJobReachesTerminalStatus ==
  [][\A w \in Workers :
      (pc[w] \in RenderPcs /\ pc'[w] \notin RenderPcs) =>
        status'[job[w]] \in {"rendered", "failed"}]_vars

\* C38: when completeJob / failJob is about to send its notification, the
\* status write of that call succeeded, the row read carries a callback and a
\* notifier is set, and the row has the status the notification announces
C38_NotificationFollowsWrite ==
  \A w \in Workers :
    pc[w] \in {"complete_notify", "fail_notify"} =>
      /\ updateSuccess[w] = "true"
      /\ ShouldNotify(found[w])
      /\ status[job[w]] = IF pc[w] = "complete_notify" THEN "rendered" ELSE "failed"

\* C39: the percentages reported in a renderVideo run are exactly those of
\* the updateStage calls before the statement the run is at (or failed at),
\* in the order 5, 10, 25, 30, 90, 95, 100; so nothing is reported after a
\* failure and 100 only comes after completeJob; once the run has returned
\* or thrown the tracker's current job is null
C39_ProgressInStageOrder ==
  LET order == <<5, 10, 25, 30, 90, 95, 100>>
      at == IF rvStep \in 1..ReturnedStep THEN rvStep
            ELSE IF rvStep = 0 THEN 1
            ELSE CHOOSE i \in DOMAIN RenderSteps : RenderSteps[i] = rvError
      done == Cardinality({i \in 1..(at - 1) : RenderSteps[i] \in Stages})
  IN /\ reported = SubSeq(order, 1, done)
     /\ (\E i \in DOMAIN reported : reported[i] = 100) =>
          /\ rvStep = ReturnedStep
          /\ \E i \in 1..(at - 1) : RenderSteps[i] = "completeJob"
     /\ rvStep \in {ReturnedStep, ThrownStep} => currentJob = NoJob
     /\ rvStep \in 1..Len(RenderSteps) => currentJob = RvJob

\* a run that failed at the upload: five stages were reported, tracking is off
C39_Witness ==
  /\ rvStep = ThrownStep
  /\ rvError = "uploadAndCleanup"
  /\ reported = <<5, 10, 25, 30, 90>>
  /\ currentJob = NoJob

\* C40: the statistics processAllJobs returns add up: total is
\* totalProcessed + totalFailed, the number of jobs getAndClaimJob returned
\* and the length of results; every claimed id has exactly one entry in
\* results, with success true exactly for the jobs renderVideo returned for
C40_StatisticsAddUp ==
  batch.at = "returned" =>
    /\ batch.stats.total = batch.stats.totalProcessed + batch.stats.totalFailed
    /\ batch.stats.total = Len(batch.claimed)
    /\ batch.stats.total = Len(batch.stats.results)
    /\ batch.stats.totalProcessed = Cardinality(batch.returnedFor)
    /\ \A i \in DOMAIN batch.claimed :
         /\ Cardinality({k \in DOMAIN batch.stats.results :
                           batch.stats.results[k].jobId = batch.claimed[i]}) = 1
         /\ \A k \in DOMAIN batch.stats.results :
              batch.stats.results[k].jobId = batch.claimed[i] =>
                (batch.stats.results[k].success <=> batch.claimed[i] \in batch.returnedFor)

\* a batch of two jobs, one rendered and one failed
C40_Witness ==
  /\ batch.at = "returned"
  /\ batch.claimed = <<1, 2>>
  /\ batch.stats.totalProcessed = 1
  /\ batch.stats.totalFailed = 1

====
